---- MODULE Spec2Model ----
(***************************************************************************)
(* Model of the Checkmarx One data fetcher: the HTTP fetch primitive, the  *)
(* date filter, the paginated audit fetch with its bounded worker pool,    *)
(* the scan fetch and the three command handlers of run.py.                *)
(*                                                                         *)
(* Text is modelled as a sequence of one-character strings so that the     *)
(* parsers (strptime, isoparse) and the formatter (strftime) do real work. *)
(***************************************************************************)
EXTENDS Integers, Sequences, FiniteSets, TLC

\* ------------------------------------------------------------------------
\* Bounds of the model
\* ------------------------------------------------------------------------
MaxRecords == 2
MaxRootEvents == 1
MaxLinks == 2
MaxColumns == 4
MaxScans == 2

\* ------------------------------------------------------------------------
\* Text helpers
\* ------------------------------------------------------------------------
DigitChars == <<"0", "1", "2", "3", "4", "5", "6", "7", "8", "9">>

IsDigit(c) == \E i \in 1..10 : DigitChars[i] = c

DigitVal(c) == (CHOOSE i \in 1..10 : DigitChars[i] = c) - 1

AllDigits(s) == \A i \in 1..Len(s) : IsDigit(s[i])

RECURSIVE NumVal(_)
NumVal(s) == IF Len(s) = 0 THEN 0
             ELSE 10 * NumVal(SubSeq(s, 1, Len(s) - 1)) + DigitVal(s[Len(s)])

\* positions of character c in s
Positions(s, c) == {i \in 1..Len(s) : s[i] = c}

TwoDigits(n) == <<DigitChars[(n \div 10) + 1], DigitChars[(n % 10) + 1]>>

FourDigits(n) == <<DigitChars[((n \div 1000) % 10) + 1], DigitChars[((n \div 100) % 10) + 1],
                   DigitChars[((n \div 10) % 10) + 1], DigitChars[(n % 10) + 1]>>

\* ------------------------------------------------------------------------
\* datetime values
\* ------------------------------------------------------------------------
NoDateTime == [year |-> 0, month |-> 0, day |-> 0, hour |-> 0, minute |-> 0, second |-> 0]

IsLeap(y) == (y % 4 = 0) /\ ((y % 100 # 0) \/ (y % 400 = 0))

DaysInMonth(y, m) == IF m = 2 THEN (IF IsLeap(y) THEN 29 ELSE 28)
                     ELSE IF m \in {4, 6, 9, 11} THEN 30 ELSE 31

\* datetime(year, month, day, ...) accepts the fields or raises ValueError
ValidDate(y, m, d) == /\ y \in 1..9999
                      /\ m \in 1..12
                      /\ d \in 1..DaysInMonth(y, m)

\* datetime.date(): the date portion, time-of-day dropped
DateOf(dt) == <<dt.year, dt.month, dt.day>>

\* comparison of two date() values (year, then month, then day)
DateLE(a, b) == \/ a[1] < b[1]
                \/ a[1] = b[1] /\ a[2] < b[2]
                \/ a[1] = b[1] /\ a[2] = b[2] /\ a[3] <= b[3]

DateGE_exclusive(a, b) == DateLE(b, a) /\ a # b

DateGE(a, b) == DateLE(b, a)

\* ------------------------------------------------------------------------
\* datetime.strptime for the two formats of parse_flexible_date
\* ------------------------------------------------------------------------
\* %m : 1[0-2] | 0[1-9] | [1-9]
MonthField(s) == \/ Len(s) = 2 /\ AllDigits(s) /\ NumVal(s) \in 1..12
                 \/ Len(s) = 1 /\ AllDigits(s) /\ NumVal(s) \in 1..9

\* %d : 3[01] | [12]\d | 0[1-9] | [1-9] | " "[1-9]
DayField(s) == \/ Len(s) = 2 /\ AllDigits(s) /\ NumVal(s) \in 1..31
               \/ Len(s) = 1 /\ AllDigits(s) /\ NumVal(s) \in 1..9
               \/ Len(s) = 2 /\ s[1] = " " /\ IsDigit(s[2]) /\ DigitVal(s[2]) \in 1..9

DayVal(s) == IF s[1] = " " THEN DigitVal(s[2]) ELSE NumVal(s)

\* %y : two digits, 00..68 -> 2000..2068, 69..99 -> 1969..1999
TwoDigitYear(n) == IF n <= 68 THEN 2000 + n ELSE 1900 + n

\* strptime(date_str, "%m/%d/%Y") when yearLen = 4, "%m/%d/%y" when yearLen = 2
Strptime(s, yearLen) ==
    LET sl == Positions(s, "/") IN
    IF Cardinality(sl) # 2 THEN [ok |-> FALSE, dt |-> NoDateTime]
    ELSE LET p1 == CHOOSE i \in sl : \A j \in sl : i <= j
             p2 == CHOOSE i \in sl : \A j \in sl : j <= i
             ms == SubSeq(s, 1, p1 - 1)
             ds == SubSeq(s, p1 + 1, p2 - 1)
             ys == SubSeq(s, p2 + 1, Len(s))
         IN IF /\ MonthField(ms)
               /\ DayField(ds)
               /\ Len(ys) = yearLen
               /\ AllDigits(ys)
            THEN LET y == IF yearLen = 4 THEN NumVal(ys) ELSE TwoDigitYear(NumVal(ys))
                     m == NumVal(ms)
                     d == DayVal(ds)
                 IN IF ValidDate(y, m, d)
                    THEN [ok |-> TRUE,
                          dt |-> [year |-> y, month |-> m, day |-> d,
                                  hour |-> 0, minute |-> 0, second |-> 0]]
                    ELSE [ok |-> FALSE, dt |-> NoDateTime]
            ELSE [ok |-> FALSE, dt |-> NoDateTime]

\* parse_flexible_date: first "%m/%d/%Y", then "%m/%d/%y", else ValueError
parse_flexible_date(date_str) ==
    IF Strptime(date_str, 4).ok THEN Strptime(date_str, 4)
    ELSE IF Strptime(date_str, 2).ok THEN Strptime(date_str, 2)
    ELSE [ok |-> FALSE, dt |-> NoDateTime]

\* ------------------------------------------------------------------------
\* dateutil.parser.isoparse, for the extended ISO-8601 forms
\*   YYYY-MM-DD
\*   YYYY-MM-DD<sep>HH:MM:SS            (any single separator character)
\*   YYYY-MM-DD<sep>HH:MM:SS(Z | +HH:MM | -HH:MM)
\* The zone suffix is kept out of the fields: date() and strftime() read the
\* wall-clock fields of the value as written.
\* ------------------------------------------------------------------------
IsoDatePart(s) == /\ Len(s) = 10
                  /\ AllDigits(SubSeq(s, 1, 4))
                  /\ s[5] = "-"
                  /\ AllDigits(SubSeq(s, 6, 7))
                  /\ s[8] = "-"
                  /\ AllDigits(SubSeq(s, 9, 10))
                  /\ ValidDate(NumVal(SubSeq(s, 1, 4)), NumVal(SubSeq(s, 6, 7)),
                               NumVal(SubSeq(s, 9, 10)))

IsoTimePart(s) == /\ Len(s) = 8
                  /\ AllDigits(SubSeq(s, 1, 2))
                  /\ s[3] = ":"
                  /\ AllDigits(SubSeq(s, 4, 5))
                  /\ s[6] = ":"
                  /\ AllDigits(SubSeq(s, 7, 8))
                  /\ NumVal(SubSeq(s, 1, 2)) \in 0..23
                  /\ NumVal(SubSeq(s, 4, 5)) \in 0..59
                  /\ NumVal(SubSeq(s, 7, 8)) \in 0..59

IsoZonePart(s) == \/ Len(s) = 0
                  \/ s = <<"Z">>
                  \/ /\ Len(s) = 6
                     /\ s[1] \in {"+", "-"}
                     /\ AllDigits(SubSeq(s, 2, 3))
                     /\ s[4] = ":"
                     /\ AllDigits(SubSeq(s, 5, 6))
                     /\ NumVal(SubSeq(s, 2, 3)) \in 0..23
                     /\ NumVal(SubSeq(s, 5, 6)) \in 0..59

isoparse(s) ==
    IF Len(s) >= 10 /\ IsoDatePart(SubSeq(s, 1, 10))
    THEN LET y == NumVal(SubSeq(s, 1, 4))
             m == NumVal(SubSeq(s, 6, 7))
             d == NumVal(SubSeq(s, 9, 10))
         IN IF Len(s) = 10
            THEN [ok |-> TRUE, dt |-> [year |-> y, month |-> m, day |-> d,
                                       hour |-> 0, minute |-> 0, second |-> 0]]
            ELSE IF /\ Len(s) >= 19
                    /\ IsoTimePart(SubSeq(s, 12, 19))
                    /\ IsoZonePart(SubSeq(s, 20, Len(s)))
                 THEN [ok |-> TRUE,
                       dt |-> [year |-> y, month |-> m, day |-> d,
                               hour |-> NumVal(SubSeq(s, 12, 13)),
                               minute |-> NumVal(SubSeq(s, 15, 16)),
                               second |-> NumVal(SubSeq(s, 18, 19))]]
                 ELSE [ok |-> FALSE, dt |-> NoDateTime]
    ELSE [ok |-> FALSE, dt |-> NoDateTime]

\* strftime("%m/%d/%Y %H:%M")
strftime(dt) == TwoDigits(dt.month) \o <<"/">> \o TwoDigits(dt.day) \o <<"/">>
                \o FourDigits(dt.year) \o <<" ">> \o TwoDigits(dt.hour) \o <<":">>
                \o TwoDigits(dt.minute)

\* ------------------------------------------------------------------------
\* JSON values as the program holds them
\* ------------------------------------------------------------------------
\* An element of a Python list: a record mapping (kind "dict") or a string
\* (kind "str", the text in key).  A mapping is an audit event or a link
\* descriptor; absent fields are flagged, their slots hold the empty text.
Item(id, hasEventDate, eventDate, hasUrl) ==
    [kind |-> "dict", id |-> id, hasEventDate |-> hasEventDate, eventDate |-> eventDate,
     hasUrl |-> hasUrl, hasFmt |-> FALSE, FormattedEventDate |-> <<>>, key |-> ""]

StrItem(k) ==
    [kind |-> "str", id |-> 0, hasEventDate |-> FALSE, eventDate |-> <<>>,
     hasUrl |-> FALSE, hasFmt |-> FALSE, FormattedEventDate |-> <<>>, key |-> k]

\* Optional[str] arguments: None, or a text (possibly empty)
PyNone == [none |-> TRUE, s |-> <<>>]

PyStr(s) == [none |-> FALSE, s |-> s]

\* truth value of an Optional[str]: None and "" are falsy
Truthy(a) == ~a.none /\ Len(a.s) > 0

\* the timestamps the upstream API is observed with
TS_0315 == <<"2","0","2","4","-","0","3","-","1","5","T","1","0",":","0","0",":","0","0","Z">>
TS_0316 == <<"2","0","2","4","-","0","3","-","1","6","T","0","0",":","0","0",":","0","0","Z">>
TS_0314 == <<"2","0","2","4","-","0","3","-","1","4","T","2","3",":","5","9",":","5","9","+","0","2",":","0","0">>
TS_US == <<"0","3","/","1","5","/","2","0","2","4">>
TS_0229 == <<"2","0","2","4","-","0","2","-","2","9">>
TS_1231 == <<"2","0","2","3","-","1","2","-","3","1","T","2","3",":","3","0",":","0","0","-","0","5",":","0","0">>
TS_0101 == <<"2","0","2","5","-","0","1","-","0","1","T","0","0",":","0","5",":","0","0","Z">>

EventPool == <<Item(1, TRUE, TS_0315, FALSE),
               Item(2, TRUE, TS_0316, FALSE),
               Item(3, TRUE, TS_0314, FALSE),
               Item(4, FALSE, <<>>, FALSE),
               Item(5, TRUE, TS_US, FALSE),
               Item(6, TRUE, TS_0229, FALSE),
               Item(7, TRUE, TS_1231, FALSE),
               Item(8, TRUE, TS_0101, FALSE)>>

\* the --from_date / --to_date texts
D_0315 == <<"0","3","/","1","5","/","2","0","2","4">>
D_0315s == <<"3","/","1","5","/","2","4">>
D_0316 == <<"0","3","/","1","6","/","2","0","2","4">>
D_1231 == <<"1","2","/","3","1","/","2","3">>
D_1969 == <<"0","1","/","0","1","/","6","9">>
D_ISO == <<"2","0","2","4","-","0","3","-","1","5">>
D_0230 == <<"0","2","/","3","0","/","2","0","2","4">>
D_202 == <<"0","3","/","1","5","/","2","0","2">>

BoundPool == <<PyNone, PyStr(<<>>), PyStr(D_0315), PyStr(D_0315s), PyStr(D_0316),
               PyStr(D_1231), PyStr(D_1969), PyStr(D_ISO), PyStr(D_0230), PyStr(D_202)>>

\* sequences over the elements of tuple pool, of length at most n
SeqsUpTo(pool, n) == UNION {[1..k -> {pool[i] : i \in 1..Len(pool)}] : k \in 0..n}

\* ------------------------------------------------------------------------
\* filter_by_date
\* ------------------------------------------------------------------------
KeepEvent_boundRequired(event, from_none, from_dt, to_none, to_dt) ==
    /\ event.kind = "dict"
    /\ event.hasEventDate
    /\ isoparse(event.eventDate).ok
    /\ DateGE(DateOf(isoparse(event.eventDate).dt), DateOf(from_dt))
    /\ DateLE(DateOf(isoparse(event.eventDate).dt), DateOf(to_dt))

\* one iteration of the loop body: TRUE when the event is appended; a
\* string element, a missing eventDate or an unparseable one raises inside
\* the try and the element is skipped
KeepEvent(event, from_none, from_dt, to_none, to_dt) ==
    /\ event.kind = "dict"
    /\ event.hasEventDate
    /\ isoparse(event.eventDate).ok
    /\ (from_none \/ DateGE(DateOf(isoparse(event.eventDate).dt), DateOf(from_dt)))
    /\ (to_none \/ DateLE(DateOf(isoparse(event.eventDate).dt), DateOf(to_dt)))

\* variant: the loop ends at the first element that raises
filter_by_date_stopAtUndated(events, from_date, to_date) ==
    LET from_p == IF Truthy(from_date) THEN parse_flexible_date(from_date.s)
                  ELSE [ok |-> TRUE, dt |-> NoDateTime]
        to_p == IF Truthy(to_date) THEN parse_flexible_date(to_date.s)
                ELSE [ok |-> TRUE, dt |-> NoDateTime]
        Keep(e) == KeepEvent(e, ~Truthy(from_date), from_p.dt, ~Truthy(to_date), to_p.dt)
        Bad(e) == ~(e.kind = "dict" /\ e.hasEventDate /\ isoparse(e.eventDate).ok)
        stop == IF \E i \in 1..Len(events) : Bad(events[i])
                THEN (CHOOSE i \in 1..Len(events) :
                        Bad(events[i]) /\ \A j \in 1..(i - 1) : ~Bad(events[j])) - 1
                ELSE Len(events)
    IN IF ~from_p.ok \/ ~to_p.ok
       THEN [raised |-> TRUE, result |-> <<>>, examined |-> 0]
       ELSE [raised |-> FALSE, result |-> SelectSeq(SubSeq(events, 1, stop), Keep),
             examined |-> Len(events)]

\* variant: an unparseable bound is taken as no bound
filter_by_date_lenient(events, from_date, to_date) ==
    LET from_g == Truthy(from_date) /\ parse_flexible_date(from_date.s).ok
        to_g == Truthy(to_date) /\ parse_flexible_date(to_date.s).ok
        from_dt == IF from_g THEN parse_flexible_date(from_date.s).dt ELSE NoDateTime
        to_dt == IF to_g THEN parse_flexible_date(to_date.s).dt ELSE NoDateTime
        Keep(e) == KeepEvent(e, ~from_g, from_dt, ~to_g, to_dt)
    IN [raised |-> FALSE, result |-> SelectSeq(events, Keep), examined |-> Len(events)]

\* raised: ValueError of parse_flexible_date left the function;
\* examined: number of loop iterations executed
filter_by_date(events, from_date, to_date) ==
    LET from_p == IF Truthy(from_date) THEN parse_flexible_date(from_date.s)
                  ELSE [ok |-> TRUE, dt |-> NoDateTime]
        to_p == IF Truthy(to_date) THEN parse_flexible_date(to_date.s)
                ELSE [ok |-> TRUE, dt |-> NoDateTime]
        Keep(e) == KeepEvent(e, ~Truthy(from_date), from_p.dt, ~Truthy(to_date), to_p.dt)
    IN IF ~from_p.ok \/ ~to_p.ok
       THEN [raised |-> TRUE, result |-> <<>>, examined |-> 0]
       ELSE [raised |-> FALSE, result |-> SelectSeq(events, Keep), examined |-> Len(events)]

\* sub-lists of tuple pool (elements in pool order) of length at most n
SubListsOf(pool, n) ==
    {[k \in 1..Cardinality(S) |->
         pool[CHOOSE i \in S : Cardinality({j \in S : j < i}) = k - 1]] :
       S \in {T \in SUBSET (1..Len(pool)) : Cardinality(T) <= n}}

\* ------------------------------------------------------------------------
\* HTTP: what the upstream API may answer, and get_response
\* ------------------------------------------------------------------------
Url(res, id) == [res |-> res, id |-> id]

NoUrl == Url("", 0)

\* a decoded JSON body: an object (keys in document order, with the lists
\* under "events", "links" and "scans") or an array (elements in events)
Body(kind, keys, events, links, scans) ==
    [kind |-> kind, keys |-> keys, events |-> events, links |-> links, scans |-> scans]

EmptyBody == Body("object", <<>>, <<>>, <<>>, <<>>)

\* delivered = FALSE: the transport failed and requests.get raised
Response(delivered, status, body) == [delivered |-> delivered, status |-> status, body |-> body]

\* a pagination link descriptor
TS_0315D == <<"2","0","2","4","-","0","3","-","1","5">>
TS_0317D == <<"2","0","2","4","-","0","3","-","1","7">>

LinkPool == <<Item(11, TRUE, TS_0315D, TRUE),
              Item(12, TRUE, TS_0317D, TRUE),
              Item(13, FALSE, <<>>, TRUE),
              Item(14, TRUE, TS_0315D, FALSE)>>

RunEventPool == <<EventPool[1], EventPool[2], EventPool[4]>>

LinkEventPool == <<EventPool[8]>>

ScanPool == <<101, 102>>

\* bodies of the audit resource, of a link and of the scans resource
RootBodies == {Body("object", <<"events", "links">>, ev, ln, <<>>) :
                 ev \in SubListsOf(RunEventPool, MaxRootEvents),
                 ln \in SubListsOf(LinkPool, MaxLinks)}

LinkBodies == {Body("object", <<"events">>, ev, <<>>, <<>>) :
                 ev \in SubListsOf(LinkEventPool, Len(LinkEventPool))}
              \cup {Body("array", <<>>, ev, <<>>, <<>>) :
                 ev \in SubListsOf(LinkEventPool, Len(LinkEventPool))}

ScanBodies == {Body("object", <<"scans">>, <<>>, <<>>, sc) :
                 sc \in SubListsOf(ScanPool, 1)}

FailStatuses == {404, 500}

Responses(bodies) == {Response(FALSE, 0, EmptyBody)}
                     \cup {Response(TRUE, st, EmptyBody) : st \in FailStatuses}
                     \cup {Response(TRUE, 200, b) : b \in bodies}

ResponseOk_upTo400(status) == status <= 400

\* response.ok of the requests library: no 4xx/5xx status
ResponseOk(status) == status < 400

\* get_response: one GET; the decoded body, or RuntimeError naming the URL
\* and the status code; a transport failure leaves as the library's error
get_response(url, resp) ==
    IF ~resp.delivered
    THEN [raised |-> TRUE, err |-> "ConnectionError", err_status |-> 0, err_url |-> NoUrl,
          body |-> EmptyBody, gets |-> 1]
    ELSE IF ResponseOk(resp.status)
    THEN [raised |-> FALSE, err |-> "", err_status |-> 0, err_url |-> NoUrl,
          body |-> resp.body, gets |-> 1]
    ELSE [raised |-> TRUE, err |-> "RuntimeError", err_status |-> resp.status, err_url |-> url,
          body |-> EmptyBody, gets |-> 1]

\* ------------------------------------------------------------------------
\* add_formatted_date and the handlers' sort
\* ------------------------------------------------------------------------
\* FormattedEventDate is set on a mapping whose eventDate parses; any other
\* element raises inside the try and is left as it is
AddFormatted(item) ==
    IF item.kind = "dict" /\ item.hasEventDate /\ isoparse(item.eventDate).ok
    THEN [item EXCEPT !.hasFmt = TRUE,
                      !.FormattedEventDate = strftime(isoparse(item.eventDate).dt)]
    ELSE item

add_formatted_date(items) == [i \in 1..Len(items) |-> AddFormatted(items[i])]

\* code points of the characters of a formatted date
UpperChars == <<"A", "B", "C", "D", "E", "F", "G", "H", "I", "J", "K", "L", "M",
                "N", "O", "P", "Q", "R", "S", "T", "U", "V", "W", "X", "Y", "Z">>

LowerChars == <<"a", "b", "c", "d", "e", "f", "g", "h", "i", "j", "k", "l", "m",
                "n", "o", "p", "q", "r", "s", "t", "u", "v", "w", "x", "y", "z">>

Ord(c) == IF c = " " THEN 32
          ELSE IF c = "/" THEN 47
          ELSE IF c = ":" THEN 58
          ELSE IF c = "_" THEN 95
          ELSE IF \E i \in 1..26 : UpperChars[i] = c
          THEN 64 + (CHOOSE i \in 1..26 : UpperChars[i] = c)
          ELSE IF \E i \in 1..26 : LowerChars[i] = c
          THEN 96 + (CHOOSE i \in 1..26 : LowerChars[i] = c)
          ELSE 48 + DigitVal(c)

\* a < b for Python str
RECURSIVE StrLess(_, _)
StrLess(a, b) ==
    IF Len(b) = 0 THEN FALSE
    ELSE IF Len(a) = 0 THEN TRUE
    ELSE IF Ord(Head(a)) < Ord(Head(b)) THEN TRUE
    ELSE IF Ord(Head(a)) > Ord(Head(b)) THEN FALSE
    ELSE StrLess(Tail(a), Tail(b))

\* key=lambda x: x.get("FormattedEventDate", "")
SortKey(item) == IF item.hasFmt THEN item.FormattedEventDate ELSE <<>>

\* insert x after the last element whose key is not greater (stable)
RECURSIVE InsertSorted(_, _)
InsertSorted(sorted, x) ==
    IF Len(sorted) = 0 THEN <<x>>
    ELSE IF StrLess(SortKey(x), SortKey(sorted[Len(sorted)]))
         THEN Append(InsertSorted(SubSeq(sorted, 1, Len(sorted) - 1), x), sorted[Len(sorted)])
         ELSE Append(sorted, x)

RECURSIVE SortedByKey(_)
SortedByKey(items) ==
    IF Len(items) = 0 THEN <<>>
    ELSE InsertSorted(SortedByKey(SubSeq(items, 1, Len(items) - 1)), items[Len(items)])

\* sorted(events, key=...): AttributeError when an element is not a mapping
sorted_events_of(events) ==
    IF \E i \in 1..Len(events) : events[i].kind # "dict"
    THEN [raised |-> TRUE, result |-> <<>>]
    ELSE [raised |-> FALSE, result |-> SortedByKey(events)]

\* filtered_events.extend(events_result): the elements of an array, the
\* keys of an object
Extend(list, body) ==
    IF body.kind = "array" THEN list \o body.events
    ELSE list \o [i \in 1..Len(body.keys) |-> StrItem(body.keys[i])]

\* ------------------------------------------------------------------------
\* OutputManager._order_columns
\* ------------------------------------------------------------------------
_get_logical_column_order ==
    <<"FormattedEventDate", "created_date", "projectName", "status",
      "repository_url", "branch", "repository_type", "sourceType",
      "sourceOrigin", "initiator", "enabled_scan_engines",
      "sast_configuration", "sca_containers_enabled", "microengines_enabled",
      "general_status", "sast_status", "sast_lines_of_code", "sca_status",
      "apisec_status", "containers_status", "kics_status",
      "microengines_status", "scan_id", "project_id", "createdAt",
      "updatedAt", "userAgent", "engines", "tags", "statusDetails",
      "metadata">>

\* every key and column name of the model
KnownNames ==
    {"FormattedEventDate", "created_date", "projectName", "status",
     "repository_url", "branch", "repository_type", "sourceType",
     "sourceOrigin", "initiator", "enabled_scan_engines",
     "sast_configuration", "sca_containers_enabled", "microengines_enabled",
     "general_status", "sast_status", "sast_lines_of_code", "sca_status",
     "apisec_status", "containers_status", "kics_status",
     "microengines_status", "scan_id", "project_id", "createdAt",
     "updatedAt", "userAgent", "engines", "tags", "statusDetails",
     "metadata", "id", "eventDate", "Zone", "_links", "details_id",
     "projectId", "details_status", "details_username", "data", "username",
     "actionType", "Handler", "GitHandler", "repo_url", "project",
     "configs", "type", "value", "presetName", "incremental",
     "enableContainersScan", "created_at", "seconds", "name", "loc",
     "engine", "scanEngine", "general", "sast", "sca", "apisec",
     "containers", "kics", "microengines", "iac", "iac_status", "scorecard",
     "secrets", "k", "custom"}

\* the characters of a name
Spelling(name) ==
    CASE name = "FormattedEventDate" -> <<"F", "o", "r", "m", "a", "t", "t", "e", "d", "E", "v", "e", "n", "t", "D", "a", "t", "e">>
      [] name = "created_date" -> <<"c", "r", "e", "a", "t", "e", "d", "_", "d", "a", "t", "e">>
      [] name = "projectName" -> <<"p", "r", "o", "j", "e", "c", "t", "N", "a", "m", "e">>
      [] name = "status" -> <<"s", "t", "a", "t", "u", "s">>
      [] name = "repository_url" -> <<"r", "e", "p", "o", "s", "i", "t", "o", "r", "y", "_", "u", "r", "l">>
      [] name = "branch" -> <<"b", "r", "a", "n", "c", "h">>
      [] name = "repository_type" -> <<"r", "e", "p", "o", "s", "i", "t", "o", "r", "y", "_", "t", "y", "p", "e">>
      [] name = "sourceType" -> <<"s", "o", "u", "r", "c", "e", "T", "y", "p", "e">>
      [] name = "sourceOrigin" -> <<"s", "o", "u", "r", "c", "e", "O", "r", "i", "g", "i", "n">>
      [] name = "initiator" -> <<"i", "n", "i", "t", "i", "a", "t", "o", "r">>
      [] name = "enabled_scan_engines" -> <<"e", "n", "a", "b", "l", "e", "d", "_", "s", "c", "a", "n", "_", "e", "n", "g", "i", "n", "e", "s">>
      [] name = "sast_configuration" -> <<"s", "a", "s", "t", "_", "c", "o", "n", "f", "i", "g", "u", "r", "a", "t", "i", "o", "n">>
      [] name = "sca_containers_enabled" -> <<"s", "c", "a", "_", "c", "o", "n", "t", "a", "i", "n", "e", "r", "s", "_", "e", "n", "a", "b", "l", "e", "d">>
      [] name = "microengines_enabled" -> <<"m", "i", "c", "r", "o", "e", "n", "g", "i", "n", "e", "s", "_", "e", "n", "a", "b", "l", "e", "d">>
      [] name = "general_status" -> <<"g", "e", "n", "e", "r", "a", "l", "_", "s", "t", "a", "t", "u", "s">>
      [] name = "sast_status" -> <<"s", "a", "s", "t", "_", "s", "t", "a", "t", "u", "s">>
      [] name = "sast_lines_of_code" -> <<"s", "a", "s", "t", "_", "l", "i", "n", "e", "s", "_", "o", "f", "_", "c", "o", "d", "e">>
      [] name = "sca_status" -> <<"s", "c", "a", "_", "s", "t", "a", "t", "u", "s">>
      [] name = "apisec_status" -> <<"a", "p", "i", "s", "e", "c", "_", "s", "t", "a", "t", "u", "s">>
      [] name = "containers_status" -> <<"c", "o", "n", "t", "a", "i", "n", "e", "r", "s", "_", "s", "t", "a", "t", "u", "s">>
      [] name = "kics_status" -> <<"k", "i", "c", "s", "_", "s", "t", "a", "t", "u", "s">>
      [] name = "microengines_status" -> <<"m", "i", "c", "r", "o", "e", "n", "g", "i", "n", "e", "s", "_", "s", "t", "a", "t", "u", "s">>
      [] name = "scan_id" -> <<"s", "c", "a", "n", "_", "i", "d">>
      [] name = "project_id" -> <<"p", "r", "o", "j", "e", "c", "t", "_", "i", "d">>
      [] name = "createdAt" -> <<"c", "r", "e", "a", "t", "e", "d", "A", "t">>
      [] name = "updatedAt" -> <<"u", "p", "d", "a", "t", "e", "d", "A", "t">>
      [] name = "userAgent" -> <<"u", "s", "e", "r", "A", "g", "e", "n", "t">>
      [] name = "engines" -> <<"e", "n", "g", "i", "n", "e", "s">>
      [] name = "tags" -> <<"t", "a", "g", "s">>
      [] name = "statusDetails" -> <<"s", "t", "a", "t", "u", "s", "D", "e", "t", "a", "i", "l", "s">>
      [] name = "metadata" -> <<"m", "e", "t", "a", "d", "a", "t", "a">>
      [] name = "id" -> <<"i", "d">>
      [] name = "eventDate" -> <<"e", "v", "e", "n", "t", "D", "a", "t", "e">>
      [] name = "Zone" -> <<"Z", "o", "n", "e">>
      [] name = "_links" -> <<"_", "l", "i", "n", "k", "s">>
      [] name = "details_id" -> <<"d", "e", "t", "a", "i", "l", "s", "_", "i", "d">>
      [] name = "projectId" -> <<"p", "r", "o", "j", "e", "c", "t", "I", "d">>
      [] name = "details_status" -> <<"d", "e", "t", "a", "i", "l", "s", "_", "s", "t", "a", "t", "u", "s">>
      [] name = "details_username" -> <<"d", "e", "t", "a", "i", "l", "s", "_", "u", "s", "e", "r", "n", "a", "m", "e">>
      [] name = "data" -> <<"d", "a", "t", "a">>
      [] name = "username" -> <<"u", "s", "e", "r", "n", "a", "m", "e">>
      [] name = "actionType" -> <<"a", "c", "t", "i", "o", "n", "T", "y", "p", "e">>
      [] name = "Handler" -> <<"H", "a", "n", "d", "l", "e", "r">>
      [] name = "GitHandler" -> <<"G", "i", "t", "H", "a", "n", "d", "l", "e", "r">>
      [] name = "repo_url" -> <<"r", "e", "p", "o", "_", "u", "r", "l">>
      [] name = "project" -> <<"p", "r", "o", "j", "e", "c", "t">>
      [] name = "configs" -> <<"c", "o", "n", "f", "i", "g", "s">>
      [] name = "type" -> <<"t", "y", "p", "e">>
      [] name = "value" -> <<"v", "a", "l", "u", "e">>
      [] name = "presetName" -> <<"p", "r", "e", "s", "e", "t", "N", "a", "m", "e">>
      [] name = "incremental" -> <<"i", "n", "c", "r", "e", "m", "e", "n", "t", "a", "l">>
      [] name = "enableContainersScan" -> <<"e", "n", "a", "b", "l", "e", "C", "o", "n", "t", "a", "i", "n", "e", "r", "s", "S", "c", "a", "n">>
      [] name = "created_at" -> <<"c", "r", "e", "a", "t", "e", "d", "_", "a", "t">>
      [] name = "seconds" -> <<"s", "e", "c", "o", "n", "d", "s">>
      [] name = "name" -> <<"n", "a", "m", "e">>
      [] name = "loc" -> <<"l", "o", "c">>
      [] name = "engine" -> <<"e", "n", "g", "i", "n", "e">>
      [] name = "scanEngine" -> <<"s", "c", "a", "n", "E", "n", "g", "i", "n", "e">>
      [] name = "general" -> <<"g", "e", "n", "e", "r", "a", "l">>
      [] name = "sast" -> <<"s", "a", "s", "t">>
      [] name = "sca" -> <<"s", "c", "a">>
      [] name = "apisec" -> <<"a", "p", "i", "s", "e", "c">>
      [] name = "containers" -> <<"c", "o", "n", "t", "a", "i", "n", "e", "r", "s">>
      [] name = "kics" -> <<"k", "i", "c", "s">>
      [] name = "microengines" -> <<"m", "i", "c", "r", "o", "e", "n", "g", "i", "n", "e", "s">>
      [] name = "iac" -> <<"i", "a", "c">>
      [] name = "iac_status" -> <<"i", "a", "c", "_", "s", "t", "a", "t", "u", "s">>
      [] name = "scorecard" -> <<"s", "c", "o", "r", "e", "c", "a", "r", "d">>
      [] name = "secrets" -> <<"s", "e", "c", "r", "e", "t", "s">>
      [] name = "k" -> <<"k">>
      [] name = "custom" -> <<"c", "u", "s", "t", "o", "m">>

RangeOf(q) == {q[i] : i \in 1..Len(q)}

\* insert a name after the last name that is not greater
RECURSIVE InsertName(_, _)
InsertName(sorted, x) ==
    IF Len(sorted) = 0 THEN <<x>>
    ELSE IF StrLess(Spelling(x), Spelling(sorted[Len(sorted)]))
         THEN Append(InsertName(SubSeq(sorted, 1, Len(sorted) - 1), x), sorted[Len(sorted)])
         ELSE Append(sorted, x)

\* sorted(iterable) of column names, the iterable given in iteration order
RECURSIVE sorted_names(_)
sorted_names(iter) ==
    IF Len(iter) = 0 THEN <<>>
    ELSE InsertName(sorted_names(SubSeq(iter, 1, Len(iter) - 1)), iter[Len(iter)])

_order_columns_alphabetical(all_columns) == sorted_names(all_columns)

\* _order_columns(all_columns); the set is given by its iteration order
_order_columns(all_columns) ==
    LET ordered_columns == SelectSeq(_get_logical_column_order,
                                     LAMBDA col : col \in RangeOf(all_columns))
        remaining_columns ==
            sorted_names(SelectSeq(all_columns, LAMBDA col : col \notin RangeOf(ordered_columns)))
    IN ordered_columns \o remaining_columns

\* ------------------------------------------------------------------------
\* The writer, as far as the handlers depend on it: the boolean it returns.
\* io_ok = FALSE: creating the directory or writing the file failed.
\* ------------------------------------------------------------------------
\* save_audit_events: nothing is written for an empty list
save_audit_events(events, output_format, io_ok) ==
    IF Len(events) = 0 THEN TRUE ELSE io_ok

\* save_scan_results: the workbook is saved even when there is no scan
save_scan_results(scans, output_format, io_ok) ==
    IF output_format = "csv" /\ Len(scans) = 0 THEN TRUE ELSE io_ok

\* save_combined_data: two CSV files, or one workbook
save_combined_data(audit_events, scan_events, output_format, io_audit, io_scan) ==
    IF output_format = "csv"
    THEN /\ (Len(audit_events) = 0 \/ io_audit)
         /\ (Len(scan_events) = 0 \/ io_scan)
    ELSE io_audit

\* get_default_date_range on the day of the run: thirty days ago .. today
D_0215 == <<"0","2","/","1","5","/","2","0","2","4">>

get_default_date_range == <<PyStr(D_0215), PyStr(D_0316)>>

\* ------------------------------------------------------------------------
\* restricted_int_threads, the argparse type of --thread_count
\* ------------------------------------------------------------------------
MIN_THREADS == 1

MAX_THREADS == 7

\* default=4 of --thread_count: argparse does not pass it through the type
DEFAULT_THREADS == 4

\* str.strip() of the blanks around a text
RECURSIVE Strip(_)
Strip(s) == IF Len(s) = 0 THEN s
            ELSE IF Head(s) = " " THEN Strip(Tail(s))
            ELSE IF s[Len(s)] = " " THEN Strip(SubSeq(s, 1, Len(s) - 1))
            ELSE s

\* int(val) of a str: blanks around it, an optional sign, decimal digits;
\* ValueError for any other text
PyIntOf(s) ==
    LET t == Strip(s)
        signed == Len(t) > 0 /\ t[1] \in {"+", "-"}
        digits == IF signed THEN Tail(t) ELSE t
    IN IF Len(digits) > 0 /\ AllDigits(digits)
       THEN [ok |-> TRUE,
             value |-> IF signed /\ t[1] = "-" THEN 0 - NumVal(digits) ELSE NumVal(digits)]
       ELSE [ok |-> FALSE, value |-> 0]

restricted_int_threads_noUpperLimit(val) ==
    LET ival == PyIntOf(val)
    IN IF ~ival.ok THEN [raised |-> "ValueError", value |-> 0]
       ELSE IF ival.value < MIN_THREADS
       THEN [raised |-> "ArgumentTypeError", value |-> 0]
       ELSE [raised |-> "", value |-> ival.value]

\* restricted_int_threads(val): the integer, or ArgumentTypeError outside
\* 1..7; int(val) raises ValueError for a text that is no integer
restricted_int_threads(val) ==
    LET ival == PyIntOf(val)
    IN IF ~ival.ok THEN [raised |-> "ValueError", value |-> 0]
       ELSE IF ival.value < MIN_THREADS \/ ival.value > MAX_THREADS
       THEN [raised |-> "ArgumentTypeError", value |-> 0]
       ELSE [raised |-> "", value |-> ival.value]

\* ------------------------------------------------------------------------
\* Decoded JSON values of a scan or audit record:
\* None, str, int, bool, list and dict (keys in insertion order)
\* ------------------------------------------------------------------------
VNone == [t |-> "none", s |-> <<>>, n |-> 0, items |-> <<>>, keys |-> <<>>, vals |-> <<>>]

VStr(text) == [t |-> "str", s |-> text, n |-> 0, items |-> <<>>, keys |-> <<>>, vals |-> <<>>]

VInt(k) == [t |-> "int", s |-> <<>>, n |-> k, items |-> <<>>, keys |-> <<>>, vals |-> <<>>]

VBool(b) == [t |-> "bool", s |-> <<>>, n |-> IF b THEN 1 ELSE 0, items |-> <<>>,
             keys |-> <<>>, vals |-> <<>>]

VList(elems) == [t |-> "list", s |-> <<>>, n |-> 0, items |-> elems, keys |-> <<>>,
                 vals |-> <<>>]

VDict(ks, vs) == [t |-> "dict", s |-> <<>>, n |-> 0, items |-> <<>>, keys |-> ks, vals |-> vs]

EmptyDict == VDict(<<>>, <<>>)

EmptyList == VList(<<>>)

NA == VStr(<<"N", "A">>)

IsDict(v) == v.t = "dict"

IsList(v) == v.t = "list"

IsStr(v) == v.t = "str"

\* bool(v)
IsTrue(v) ==
    CASE v.t = "none" -> FALSE
      [] v.t = "str" -> Len(v.s) > 0
      [] v.t = "int" -> v.n # 0
      [] v.t = "bool" -> v.n = 1
      [] v.t = "list" -> Len(v.items) > 0
      [] v.t = "dict" -> Len(v.keys) > 0

IndexOf(q, x) == CHOOSE i \in 1..Len(q) : q[i] = x

\* key in d
Has(d, k) == \E i \in 1..Len(d.keys) : d.keys[i] = k

\* d.get(k, default)
Get(d, k, default) == IF Has(d, k) THEN d.vals[IndexOf(d.keys, k)] ELSE default

\* d[k] = v
Put(d, k, v) ==
    IF Has(d, k)
    THEN VDict(d.keys, [d.vals EXCEPT ![IndexOf(d.keys, k)] = v])
    ELSE VDict(Append(d.keys, k), Append(d.vals, v))

\* d.pop(k, None)
Pop(d, k) ==
    IF Has(d, k)
    THEN LET i == IndexOf(d.keys, k)
         IN VDict(SubSeq(d.keys, 1, i - 1) \o SubSeq(d.keys, i + 1, Len(d.keys)),
                  SubSeq(d.vals, 1, i - 1) \o SubSeq(d.vals, i + 1, Len(d.vals)))
    ELSE d

\* the decimal digits of a natural number
RECURSIVE Digits(_)
Digits(k) == IF k < 10 THEN <<DigitChars[k + 1]>>
             ELSE Append(Digits(k \div 10), DigitChars[(k % 10) + 1])

\* sep.join(texts)
RECURSIVE Join(_, _)
Join(sep, texts) ==
    IF Len(texts) = 0 THEN <<>>
    ELSE IF Len(texts) = 1 THEN texts[1]
    ELSE texts[1] \o sep \o Join(sep, Tail(texts))

CommaSpace == <<",", " ">>

\* repr(v) and str(v): they differ on a str only
RECURSIVE PyRepr(_)
RECURSIVE PyStrOf(_)
PyRepr(v) ==
    CASE v.t = "none" -> <<"N", "o", "n", "e">>
      [] v.t = "str" -> <<"'">> \o v.s \o <<"'">>
      [] v.t = "int" -> IF v.n < 0 THEN <<"-">> \o Digits(0 - v.n) ELSE Digits(v.n)
      [] v.t = "bool" -> IF v.n = 1 THEN <<"T", "r", "u", "e">>
                         ELSE <<"F", "a", "l", "s", "e">>
      [] v.t = "list" ->
           <<"[">> \o Join(CommaSpace, [i \in 1..Len(v.items) |-> PyRepr(v.items[i])])
                   \o <<"]">>
      [] v.t = "dict" ->
           <<"{">> \o Join(CommaSpace,
                           [i \in 1..Len(v.keys) |->
                               <<"'">> \o Spelling(v.keys[i]) \o <<"'", ":", " ">>
                                       \o PyRepr(v.vals[i])])
                   \o <<"}">>

PyStrOf(v) == IF v.t = "str" THEN v.s ELSE PyRepr(v)

\* value is None or value == "" or (isinstance(value, str) and value.strip() == "")
IsBlank(v) == v.t = "none" \/ (v.t = "str" /\ Strip(v.s) = <<>>)

\* ------------------------------------------------------------------------
\* OutputManager._extract_scan_fields
\* ------------------------------------------------------------------------
HttpsPrefix == <<"h", "t", "t", "p", "s", ":", "/", "/">>

Min(S) == CHOOSE x \in S : \A y \in S : x <= y

\* re.sub(r'https://[^@]*@', 'https://', repo_url)
RECURSIVE RemoveCredentials(_)
RemoveCredentials(u) ==
    LET starts == {i \in 1..(Len(u) - 8) :
                     /\ SubSeq(u, i, i + 7) = HttpsPrefix
                     /\ \E j \in (i + 8)..Len(u) : u[j] = "@"}
    IN IF starts = {} THEN u
       ELSE LET i == Min(starts)
                j == Min({k \in (i + 8)..Len(u) : u[k] = "@"})
            IN SubSeq(u, 1, i + 7) \o RemoveCredentials(SubSeq(u, j + 1, Len(u)))

\* the column whose name is the given text
KeyNamed(text) == CHOOSE k \in KnownNames : Spelling(k) = text

\* scan_id and the repository fields (lines 360-404); raised: re.sub got a
\* repo_url that is no str
ExtractRepository(scan) ==
    LET metadata == Get(scan, "metadata", EmptyDict)
        e1 == Put(EmptyDict, "scan_id", Get(scan, "id", NA))
        handler == Get(metadata, "Handler", EmptyDict)
        git_handler == Get(handler, "GitHandler", EmptyDict)
        repo_url == Get(git_handler, "repo_url", NA)
        project == Get(metadata, "project", EmptyDict)
        scan_branch == Get(scan, "branch", NA)
        scan_project == Get(scan, "projectId", NA)
    IN IF ~IsDict(metadata)
       THEN [raised |-> FALSE,
             extracted |-> Put(Put(Put(Put(e1, "repository_type", NA), "repository_url", NA),
                                   "branch", scan_branch), "project_id", scan_project)]
       ELSE LET e2 == Put(e1, "repository_type", Get(metadata, "type", NA))
                e3 == IF IsDict(handler) /\ IsDict(git_handler)
                      THEN Put(Put(e2, "repository_url",
                                   IF repo_url # NA /\ IsStr(repo_url)
                                   THEN VStr(RemoveCredentials(repo_url.s)) ELSE NA),
                               "branch", Get(git_handler, "branch", scan_branch))
                      ELSE Put(Put(e2, "repository_url", NA), "branch", scan_branch)
            IN [raised |-> IsDict(handler) /\ IsDict(git_handler) /\ ~IsStr(repo_url),
                extracted |-> Put(e3, "project_id",
                                  IF IsDict(project) THEN Get(project, "id", scan_project)
                                  ELSE scan_project)]

NoConfig == [enabled_engines |-> <<>>, sast_preset |-> NA, sca_containers |-> NA,
             microengines_config |-> NA]

\* the keys of value whose val == 'true', as texts
TrueKeys(value) ==
    LET idx == SelectSeq([i \in 1..Len(value.keys) |-> i],
                         LAMBDA i : value.vals[i] = VStr(<<"t", "r", "u", "e">>))
    IN [i \in 1..Len(idx) |-> Spelling(value.keys[idx[i]])]

\* one iteration of "for config in configs" (lines 415-441)
ConfigStep(acc, config) ==
    IF ~IsDict(config) THEN acc
    ELSE LET config_type == Get(config, "type", VStr(<<>>))
             value == Get(config, "value", EmptyDict)
             acc1 == IF IsTrue(config_type)
                     THEN [acc EXCEPT !.enabled_engines = Append(@, config_type)]
                     ELSE acc
             preset == Get(value, "presetName", VStr(<<>>))
             incremental == Get(value, "incremental", VStr(<<>>))
         IN IF config_type = VStr(<<"s", "a", "s", "t">>) /\ IsDict(value)
            THEN [acc1 EXCEPT !.sast_preset =
                     IF IsTrue(preset) \/ IsTrue(incremental)
                     THEN VStr(<<"P", "r", "e", "s", "e", "t", ":", " ">> \o PyStrOf(preset)
                               \o <<",", " ", "I", "n", "c", "r", "e", "m", "e", "n", "t", "a", "l", ":", " ">> \o PyStrOf(incremental))
                     ELSE VStr(<<"D", "e", "f", "a", "u", "l", "t">>)]
            ELSE IF config_type = VStr(<<"s", "c", "a">>) /\ IsDict(value)
            THEN [acc1 EXCEPT !.sca_containers =
                     Get(value, "enableContainersScan", VStr(<<"f", "a", "l", "s", "e">>))]
            ELSE IF config_type = VStr(<<"m", "i", "c", "r", "o", "e", "n", "g", "i", "n", "e", "s">>) /\ IsDict(value)
            THEN [acc1 EXCEPT !.microengines_config =
                     IF Len(TrueKeys(value)) > 0
                     THEN VStr(Join(CommaSpace, TrueKeys(value)))
                     ELSE VStr(<<"N", "o", "n", "e">>)]
            ELSE acc1

RECURSIVE ConfigLoop(_, _)
ConfigLoop(acc, configs) ==
    IF Len(configs) = 0 THEN acc
    ELSE ConfigLoop(ConfigStep(acc, Head(configs)), Tail(configs))

\* the engine-configuration fields (lines 406-451); raised: ', '.join met an
\* enabled engine type that is no str
ConfigFields(extracted, configs, acc) ==
    LET types == acc.enabled_engines
    IN IF ~IsList(configs)
       THEN [raised |-> FALSE,
             extracted |-> Put(Put(Put(Put(extracted, "enabled_scan_engines", NA),
                                       "sast_configuration", NA),
                                   "sca_containers_enabled", NA),
                               "microengines_enabled", NA)]
       ELSE [raised |-> \E i \in 1..Len(types) : ~IsStr(types[i]),
             extracted |->
                Put(Put(Put(Put(extracted, "enabled_scan_engines",
                                IF Len(types) > 0
                                THEN VStr(Join(CommaSpace,
                                               [i \in 1..Len(types) |-> PyStrOf(types[i])]))
                                ELSE NA),
                            "sast_configuration", acc.sast_preset),
                        "sca_containers_enabled", acc.sca_containers),
                    "microengines_enabled", acc.microengines_config)]

\* configs = metadata.get('configs', []) if isinstance(metadata, dict) else []
ConfigsOf(scan) ==
    LET metadata == Get(scan, "metadata", EmptyDict)
    IN IF IsDict(metadata) THEN Get(metadata, "configs", EmptyList) ELSE EmptyList

ConfigFieldsOf(extracted, configs) ==
    ConfigFields(extracted, configs, ConfigLoop(NoConfig, configs.items))

ExtractConfigs(scan, extracted) == ConfigFieldsOf(extracted, ConfigsOf(scan))

\* created_at_str.replace('Z', '+00:00')
RECURSIVE ReplaceZ(_)
ReplaceZ(s) ==
    IF Len(s) = 0 THEN s
    ELSE (IF Head(s) = "Z" THEN <<"+", "0", "0", ":", "0", "0">> ELSE <<Head(s)>>) \o ReplaceZ(Tail(s))

\* strftime('%m/%d/%Y %H:%M:%S')
strftime_seconds(dt) == strftime(dt) \o <<":">> \o TwoDigits(dt.second)

\* datetime.fromtimestamp(seconds).strftime(...): the local time of the host
\* at that epoch second; the text depends on the host's time zone and is
\* kept as the mark "@" followed by the second
fromtimestamp_text(seconds) == <<"@">> \o PyRepr(seconds)

\* created_date (lines 453-479): every failure inside the try gives 'NA'
ExtractCreatedDate(scan, extracted) ==
    LET created_at_str == Get(scan, "createdAt", VNone)
        metadata == Get(scan, "metadata", EmptyDict)
        created_at == Get(metadata, "created_at", EmptyDict)
        seconds == Get(created_at, "seconds", VInt(0))
    IN Put(extracted, "created_date",
           IF IsTrue(created_at_str)
           THEN IF IsStr(created_at_str) /\ isoparse(ReplaceZ(created_at_str.s)).ok
                THEN VStr(strftime_seconds(isoparse(ReplaceZ(created_at_str.s)).dt))
                ELSE NA
           ELSE IF IsDict(metadata) /\ IsDict(created_at) /\ IsTrue(seconds)
                   /\ seconds.t = "int"
                THEN VStr(fromtimestamp_text(seconds))
                ELSE NA)

KnownEngines == <<"general", "sast", "sca", "apisec", "containers", "kics", "microengines">>

StatusSuffix == <<"_", "s", "t", "a", "t", "u", "s">>

\* every known engine status, and sast_lines_of_code, set to 'NA'
RECURSIVE InitStatuses(_, _)
InitStatuses(extracted, engines) ==
    IF Len(engines) = 0 THEN extracted
    ELSE LET e1 == Put(extracted, KeyNamed(Spelling(Head(engines)) \o StatusSuffix), NA)
             e2 == IF Head(engines) = "sast" THEN Put(e1, "sast_lines_of_code", NA) ELSE e1
         IN InitStatuses(e2, Tail(engines))

StatusStep_locAlways(extracted, status) ==
    IF ~IsDict(status) THEN extracted
    ELSE LET engine_name == Get(status, "name", VStr(<<>>))
             engine_status == Get(status, "status", NA)
             loc == Get(status, "loc", VInt(0))
             e1 == Put(extracted, KeyNamed(PyStrOf(engine_name) \o StatusSuffix),
                       engine_status)
         IN IF ~IsTrue(engine_name) THEN extracted
            ELSE IF engine_name = VStr(<<"s", "a", "s", "t">>)
            THEN Put(e1, "sast_lines_of_code", VStr(PyStrOf(loc)))
            ELSE e1

\* one iteration of "for status in status_details" (lines 494-506)
StatusStep(extracted, status) ==
    IF ~IsDict(status) THEN extracted
    ELSE LET engine_name == Get(status, "name", VStr(<<>>))
             engine_status == Get(status, "status", NA)
             loc == Get(status, "loc", VInt(0))
             e1 == Put(extracted, KeyNamed(PyStrOf(engine_name) \o StatusSuffix),
                       engine_status)
         IN IF ~IsTrue(engine_name) THEN extracted
            ELSE IF engine_name = VStr(<<"s", "a", "s", "t">>)
            THEN Put(e1, "sast_lines_of_code",
                     IF IsTrue(loc) THEN VStr(PyStrOf(loc)) ELSE NA)
            ELSE e1

RECURSIVE StatusLoop(_, _)
StatusLoop(extracted, details) ==
    IF Len(details) = 0 THEN extracted
    ELSE StatusLoop(StatusStep(extracted, Head(details)), Tail(details))

\* the per-engine statuses (lines 481-518)
ExtractStatuses(scan, extracted) ==
    LET status_details == Get(scan, "statusDetails", EmptyList)
    IN IF IsList(status_details)
       THEN StatusLoop(InitStatuses(extracted, KnownEngines), status_details.items)
       ELSE InitStatuses(extracted, KnownEngines)

\* _extract_scan_fields(scan): the fixed fields of the row, or an exception
ExtractAfterConfigs(scan, repo, conf) ==
    IF repo.raised \/ conf.raised
    THEN [raised |-> TRUE, extracted |-> EmptyDict]
    ELSE [raised |-> FALSE,
          extracted |-> ExtractStatuses(scan, ExtractCreatedDate(scan, conf.extracted))]

ExtractAfterRepository(scan, repo) ==
    ExtractAfterConfigs(scan, repo, ExtractConfigs(scan, repo.extracted))

_extract_scan_fields(scan) == ExtractAfterRepository(scan, ExtractRepository(scan))

\* ------------------------------------------------------------------------
\* The flattening of a scan record on the four output paths
\* ------------------------------------------------------------------------
OutputPaths == {"scan_csv", "scan_excel", "combined_csv", "combined_excel"}

PassThroughValue_reprLists(value, blank_to_na) ==
    IF blank_to_na /\ IsBlank(value) THEN NA
    ELSE IF IsList(value) \/ IsDict(value)
    THEN IF IsTrue(value) THEN VStr(PyStrOf(value)) ELSE NA
    ELSE value

\* the value stored for a field that was not extracted; save_combined_data
\* has no branch for None and blank values in its CSV loop (lines 168-175)
PassThroughValue(value, blank_to_na) ==
    IF blank_to_na /\ IsBlank(value) THEN NA
    ELSE IF IsList(value)
    THEN IF IsTrue(value)
         THEN VStr(Join(CommaSpace, [i \in 1..Len(value.items) |-> PyStrOf(value.items[i])]))
         ELSE NA
    ELSE IF IsDict(value)
    THEN IF IsTrue(value) THEN VStr(PyStrOf(value)) ELSE NA
    ELSE value

\* "for key, value in scan.items(): if key not in processed_scan: ..."
RECURSIVE AddRemainingFields(_, _, _, _)
AddRemainingFields(row, scan, i, blank_to_na) ==
    IF i > Len(scan.keys) THEN row
    ELSE AddRemainingFields(
             IF Has(row, scan.keys[i]) THEN row
             ELSE Put(row, scan.keys[i], PassThroughValue(scan.vals[i], blank_to_na)),
             scan, i + 1, blank_to_na)

\* the row built for a scan: save_scan_results (lines 93-118) for the scan
\* CSV, save_combined_data (165-176) for the combined CSV,
\* _add_scan_worksheets_by_engine (304-321) for both workbooks
FlattenExtracted(e, scan, path) ==
    IF e.raised THEN [raised |-> TRUE, row |-> EmptyDict]
    ELSE [raised |-> FALSE,
          row |-> AddRemainingFields(e.extracted, scan, 1, path # "combined_csv")]

FlattenScan(scan, path) == FlattenExtracted(_extract_scan_fields(scan), scan, path)

\* _write_csv and _write_excel: None and blank values of a row become 'NA'
BlanksToNA(row) ==
    VDict(row.keys, [i \in 1..Len(row.vals) |-> IF IsBlank(row.vals[i]) THEN NA ELSE row.vals[i]])

\* the row as it reaches the file: the CSV paths go through _write_csv, the
\* workbook paths write the cells of the row as they are
WrittenScanRow(row, path) ==
    IF path \in {"scan_csv", "combined_csv"} THEN BlanksToNA(row) ELSE row

\* ------------------------------------------------------------------------
\* State
\* ------------------------------------------------------------------------
VARIABLES
    mode,                        \* "audit", "scan" or "both"
    args_from, args_to,          \* --from_date, --to_date as supplied
    args_thread_count,           \* --thread_count as supplied, None if absent
    thread_count,                \* args.thread_count, 0 before the parse
    pc,                          \* position of the controlling thread
    exit_code,                   \* -1 while the command runs
    from_date, to_date,          \* the bounds the handler passes on
    gets,                        \* GET requests issued, per resource
    events, links,               \* lists of the audit response
    filtered_events, filtered_links,
    tasks,                       \* the futures, in submission order
    curl_equivalents_for_links,
    gae,                         \* get_audit_events: idle, running, returned or
                                 \* raised, with the exception that left it
    result_events, result_links, \* "events" and "links" of its result
    sorted_events,
    scan_results,                \* result of get_scan_results
    writer,                      \* the call to OutputManager, if any
    f_pc, f_events, f_from, f_to, f_out, f_good,   \* filter_by_date on its own
    g_pc, g_url, g_resp, g_out, g_calls, g_gets,   \* get_response on its own
    c_pc, c_columns, c_out,                        \* _order_columns on its own
    x_pc, x_scan, x_path, x_out,                   \* the flattening of one scan record
    w_pc, w_op, w_in, w_out,                       \* one call of a save operation
    q_pc, q_in, q_out,                             \* the request of get_scan_results
    k_pc, k_in, k_out                              \* the curl strings of two runs

runVars == <<mode, args_from, args_to, args_thread_count, thread_count, pc, exit_code, from_date, to_date,
             gets, events, links, filtered_events, filtered_links, tasks,
             curl_equivalents_for_links, gae, result_events, result_links,
             sorted_events, scan_results, writer>>

filterVars == <<f_pc, f_events, f_from, f_to, f_out, f_good>>

fetchVars == <<g_pc, g_url, g_resp, g_out, g_calls, g_gets>>

columnVars == <<c_pc, c_columns, c_out>>

flattenVars == <<x_pc, x_scan, x_path, x_out>>

saveVars == <<w_pc, w_op, w_in, w_out>>

scanReqVars == <<q_pc, q_in, q_out>>

curlVars == <<k_pc, k_in, k_out>>

outputVars == <<columnVars, flattenVars, saveVars, scanReqVars, curlVars>>

\* the variables of the calls that are studied on their own
pureVars == <<filterVars, fetchVars, outputVars>>

vars == <<runVars, pureVars>>

\* ------------------------------------------------------------------------
\* Command-line arguments of a run
\* ------------------------------------------------------------------------
Modes == {"audit", "scan", "both"}

\* <<--from_date, --to_date>>
ArgDates == {<<PyNone, PyNone>>, <<PyStr(<<>>), PyNone>>,
             <<PyStr(D_0315), PyStr(D_0315)>>, <<PyStr(D_0315), PyNone>>,
             <<PyNone, PyStr(D_0315)>>,
             <<PyStr(D_ISO), PyNone>>, <<PyStr(D_0315), PyStr(D_ISO)>>}

\* texts of --thread_count, None when the option is absent
ThreadTexts == <<<<"-", "1">>, <<"0">>, <<"1">>, <<"2">>, <<"3">>, <<"4">>, <<"5">>,
                 <<"6">>, <<"7">>, <<"8">>, <<"1", "0">>, <<"+", "7">>, <<"0", "7">>,
                 <<" ", "2">>, <<"x">>, <<>>, <<"1", ".", "5">>, <<"7", "0">>>>

AllThreadArgs == {PyNone} \cup {PyStr(ThreadTexts[i]) : i \in 1..Len(ThreadTexts)}

ThreadArgs == {PyStr(<<"0">>), PyStr(<<"1">>), PyStr(<<"2">>)}

OutputFormats == {"csv", "excel"}

NoTask == [state |-> "pending", requested |-> FALSE, raised |-> FALSE, err |-> "",
           body |-> EmptyBody, collected |-> FALSE]

NoScanResults == [called |-> FALSE, error |-> FALSE, scans |-> <<>>, total_count |-> 0]

NoWriter == [called |-> FALSE, op |-> "", output_format |-> "", audit |-> <<>>,
             scans |-> <<>>, ok |-> FALSE]

RunIdle ==
    /\ mode = "audit" /\ args_from = PyNone /\ args_to = PyNone
    /\ args_thread_count = PyNone /\ thread_count = 0
    /\ pc = "idle" /\ exit_code = -1 /\ from_date = PyNone /\ to_date = PyNone
    /\ gets = [audit |-> 0, link |-> 0, scans |-> 0]
    /\ events = <<>> /\ links = <<>>
    /\ filtered_events = <<>> /\ filtered_links = <<>>
    /\ tasks = <<>>
    /\ curl_equivalents_for_links = <<>>
    /\ gae = [state |-> "idle", exc |-> ""]
    /\ result_events = <<>> /\ result_links = <<>>
    /\ sorted_events = <<>>
    /\ scan_results = NoScanResults
    /\ writer = NoWriter

FilterIdle ==
    /\ f_pc = "idle" /\ f_events = <<>> /\ f_from = PyNone /\ f_to = PyNone
    /\ f_out = [raised |-> FALSE, result |-> <<>>, examined |-> 0]
    /\ f_good = [raised |-> FALSE, result |-> <<>>, examined |-> 0]

FetchIdle ==
    /\ g_pc = "idle" /\ g_url = NoUrl /\ g_resp = Response(FALSE, 0, EmptyBody)
    /\ g_out = get_response(NoUrl, Response(FALSE, 0, EmptyBody))
    /\ g_calls = 0 /\ g_gets = 0

ColumnIdle == c_pc = "idle" /\ c_columns = <<>> /\ c_out = <<>>

FlattenIdle == x_pc = "idle" /\ x_scan = <<>> /\ x_path = "" /\ x_out = <<>>

SaveIdle == w_pc = "idle" /\ w_op = "" /\ w_in = <<>> /\ w_out = <<>>

ScanReqIdle == q_pc = "idle" /\ q_in = <<>> /\ q_out = <<>>

CurlIdle == k_pc = "idle" /\ k_in = <<>> /\ k_out = <<>>

OutputIdle == ColumnIdle /\ FlattenIdle /\ SaveIdle /\ ScanReqIdle /\ CurlIdle

\* main() is about to parse the command line
InitRun(dates, threadArgs) ==
    /\ mode \in Modes
    /\ \E d \in dates : args_from = d[1] /\ args_to = d[2]
    /\ args_thread_count \in threadArgs
    /\ thread_count = 0
    /\ pc = "parse_args" /\ exit_code = -1
    /\ from_date = args_from /\ to_date = args_to
    /\ gets = [audit |-> 0, link |-> 0, scans |-> 0]
    /\ events = <<>> /\ links = <<>>
    /\ filtered_events = <<>> /\ filtered_links = <<>>
    /\ tasks = <<>>
    /\ curl_equivalents_for_links = <<>>
    /\ gae = [state |-> "idle", exc |-> ""]
    /\ result_events = <<>> /\ result_links = <<>>
    /\ sorted_events = <<>>
    /\ scan_results = NoScanResults
    /\ writer = NoWriter
    /\ FilterIdle /\ FetchIdle /\ OutputIdle

Init == InitRun(ArgDates, ThreadArgs)

\* ------------------------------------------------------------------------
\* The command handlers and get_audit_events
\* ------------------------------------------------------------------------
Exit(code) == pc' = "exit" /\ exit_code' = code

\* parser.parse_args(): --thread_count goes through restricted_int_threads;
\* on its error argparse prints the usage and exits with status 2
ParseArgs ==
    /\ pc = "parse_args"
    /\ IF args_thread_count = PyNone
       THEN /\ thread_count' = DEFAULT_THREADS
            /\ pc' = "start"
            /\ exit_code' = exit_code
       ELSE LET r == restricted_int_threads(args_thread_count.s)
            IN IF r.raised # ""
               THEN /\ Exit(2)
                    /\ thread_count' = thread_count
               ELSE /\ thread_count' = r.value
                    /\ pc' = "start"
                    /\ exit_code' = exit_code
    /\ UNCHANGED <<mode, args_from, args_to, args_thread_count, from_date, to_date,
                   gets, events, links, filtered_events, filtered_links, tasks,
                   curl_equivalents_for_links, gae, result_events, result_links,
                   sorted_events, scan_results, writer>>
    /\ UNCHANGED pureVars

\* initialize_api, and in "both" mode the default 30-day window
InitializeApi ==
    /\ pc = "start"
    /\ \E auth_ok \in BOOLEAN :
         IF ~auth_ok
         THEN /\ Exit(1)
              /\ UNCHANGED <<from_date, to_date>>
         ELSE /\ pc' = IF mode = "scan" THEN "fetch_scans" ELSE "fetch_audit"
              /\ exit_code' = exit_code
              /\ IF mode = "both" /\ ~Truthy(from_date) /\ ~Truthy(to_date)
                 THEN /\ from_date' = get_default_date_range[1]
                      /\ to_date' = get_default_date_range[2]
                 ELSE UNCHANGED <<from_date, to_date>>
    /\ UNCHANGED <<mode, args_from, args_to, args_thread_count, thread_count, gets, events, links,
                   filtered_events, filtered_links, tasks, curl_equivalents_for_links,
                   gae, result_events, result_links, sorted_events, scan_results, writer>>
    /\ UNCHANGED pureVars

LinksToFollow_unfiltered(lnks, from, to) ==
    [raised |-> FALSE, result |-> lnks, examined |-> 0]

\* the links a task is dispatched for
LinksToFollow(lnks, from, to) ==
    IF Truthy(from) \/ Truthy(to) THEN filter_by_date(lnks, from, to)
    ELSE [raised |-> FALSE, result |-> lnks, examined |-> 0]

\* the root records that are kept
EventsToKeep(evts, from, to) ==
    IF Truthy(from) \/ Truthy(to) THEN filter_by_date(evts, from, to)
    ELSE [raised |-> FALSE, result |-> evts, examined |-> 0]

\* get_audit_events up to the creation of the pool: the root request, the
\* two lists of the response and their date filter
FetchAuditRoot ==
    /\ pc = "fetch_audit"
    /\ \E resp \in Responses(RootBodies) :
         LET r == get_response(Url("audit", 0), resp)
             fe == EventsToKeep(r.body.events, from_date, to_date)
             fl == LinksToFollow(r.body.links, from_date, to_date)
         IN /\ gets' = [gets EXCEPT !.audit = @ + r.gets]
            /\ IF r.raised
               THEN /\ gae' = [state |-> "raised", exc |-> r.err]
                    /\ Exit(1)
                    /\ UNCHANGED <<events, links, filtered_events, filtered_links>>
               ELSE /\ events' = r.body.events
                    /\ links' = r.body.links
                    /\ IF fe.raised \/ fl.raised
                       THEN /\ gae' = [state |-> "raised", exc |-> "ValueError"]
                            /\ Exit(1)
                            /\ UNCHANGED <<filtered_events, filtered_links>>
                       ELSE /\ gae' = [state |-> "running", exc |-> ""]
                            /\ pc' = "submit"
                            /\ exit_code' = exit_code
                            /\ filtered_events' = fe.result
                            /\ filtered_links' = fl.result
    /\ UNCHANGED <<mode, args_from, args_to, args_thread_count, thread_count, from_date, to_date, tasks,
                   curl_equivalents_for_links, result_events, result_links,
                   sorted_events, scan_results, writer>>
    /\ UNCHANGED pureVars

\* executor.submit for every link of filtered_links
SubmitLinks ==
    /\ pc = "submit"
    /\ tasks' = [i \in 1..Len(filtered_links) |-> NoTask]
    /\ pc' = "collect"
    /\ UNCHANGED <<mode, args_from, args_to, args_thread_count, thread_count, exit_code, from_date, to_date,
                   gets, events, links, filtered_events, filtered_links,
                   curl_equivalents_for_links, gae, result_events, result_links,
                   sorted_events, scan_results, writer>>
    /\ UNCHANGED pureVars

Running == {i \in 1..Len(tasks) : tasks[i].state = "running"}

\* a free worker takes the oldest queued task and runs fetch_events_from_link
\* up to its request; link["url"] of a link without url raises KeyError
TaskStart(i) ==
    /\ pc \in {"collect", "join_raise"}
    /\ i \in 1..Len(tasks)
    /\ tasks[i].state = "pending"
    /\ \A j \in 1..(i - 1) : tasks[j].state # "pending"
    /\ Cardinality(Running) < thread_count
    /\ IF filtered_links[i].hasUrl
       THEN /\ tasks' = [tasks EXCEPT ![i].state = "running", ![i].requested = TRUE]
            /\ gets' = [gets EXCEPT !.link = @ + 1]
       ELSE /\ tasks' = [tasks EXCEPT ![i].state = "done", ![i].raised = TRUE,
                                      ![i].err = "KeyError"]
            /\ gets' = gets
    /\ UNCHANGED <<mode, args_from, args_to, args_thread_count, thread_count, pc, exit_code, from_date, to_date,
                   events, links, filtered_events, filtered_links,
                   curl_equivalents_for_links, gae, result_events, result_links,
                   sorted_events, scan_results, writer>>
    /\ UNCHANGED pureVars

\* the answer to a task's request arrives; the task returns or raises
TaskFinish(i) ==
    /\ i \in 1..Len(tasks)
    /\ tasks[i].state = "running"
    /\ \E resp \in Responses(LinkBodies) :
         LET r == get_response(Url("link", filtered_links[i].id), resp)
         IN tasks' = [tasks EXCEPT ![i].state = "done", ![i].raised = r.raised,
                                   ![i].err = r.err, ![i].body = r.body]
    /\ UNCHANGED <<mode, args_from, args_to, args_thread_count, thread_count, pc, exit_code, from_date, to_date,
                   gets, events, links, filtered_events, filtered_links,
                   curl_equivalents_for_links, gae, result_events, result_links,
                   sorted_events, scan_results, writer>>
    /\ UNCHANGED pureVars

\* one iteration of the as_completed loop; the except block reads the
\* link's url for its log line
Collect(i) ==
    /\ pc = "collect"
    /\ i \in 1..Len(tasks)
    /\ tasks[i].state = "done"
    /\ ~tasks[i].collected
    /\ tasks' = [tasks EXCEPT ![i].collected = TRUE]
    /\ IF ~tasks[i].raised
       THEN /\ filtered_events' = Extend(filtered_events, tasks[i].body)
            /\ curl_equivalents_for_links' =
                   Append(curl_equivalents_for_links, Url("link", filtered_links[i].id))
            /\ pc' = pc
       ELSE /\ UNCHANGED <<filtered_events, curl_equivalents_for_links>>
            /\ pc' = IF filtered_links[i].hasUrl THEN pc ELSE "join_raise"
    /\ UNCHANGED <<mode, args_from, args_to, args_thread_count, thread_count, exit_code, from_date, to_date,
                   gets, events, links, filtered_links, gae, result_events, result_links,
                   sorted_events, scan_results, writer>>
    /\ UNCHANGED pureVars

\* the loop is over, the pool is shut down, the result is built
GaeReturn ==
    /\ pc = "collect"
    /\ \A i \in 1..Len(tasks) : tasks[i].collected
    /\ result_events' = add_formatted_date(filtered_events)
    /\ result_links' = add_formatted_date(filtered_links)
    /\ gae' = [state |-> "returned", exc |-> ""]
    /\ pc' = "sort"
    /\ UNCHANGED <<mode, args_from, args_to, args_thread_count, thread_count, exit_code, from_date, to_date,
                   gets, events, links, filtered_events, filtered_links, tasks,
                   curl_equivalents_for_links, sorted_events, scan_results, writer>>
    /\ UNCHANGED pureVars

\* the with block that does not wait for its tasks
JoinRaise_noWait ==
    /\ pc = "join_raise"
    /\ gae' = [state |-> "raised", exc |-> "KeyError"]
    /\ Exit(1)
    /\ UNCHANGED <<mode, args_from, args_to, args_thread_count, thread_count, from_date, to_date,
                   gets, events, links, filtered_events, filtered_links, tasks,
                   curl_equivalents_for_links, result_events, result_links,
                   sorted_events, scan_results, writer>>
    /\ UNCHANGED pureVars

\* an exception left the loop: the with block waits for every task, then
\* the exception reaches the handler's except clause
JoinRaise ==
    /\ pc = "join_raise"
    /\ \A i \in 1..Len(tasks) : tasks[i].state = "done"
    /\ gae' = [state |-> "raised", exc |-> "KeyError"]
    /\ Exit(1)
    /\ UNCHANGED <<mode, args_from, args_to, args_thread_count, thread_count, from_date, to_date,
                   gets, events, links, filtered_events, filtered_links, tasks,
                   curl_equivalents_for_links, result_events, result_links,
                   sorted_events, scan_results, writer>>
    /\ UNCHANGED pureVars

\* sorted(events, key=...) in handle_audit_command and handle_both_command
SortAudit ==
    /\ pc = "sort"
    /\ LET so == sorted_events_of(result_events)
       IN IF so.raised
          THEN /\ Exit(1)
               /\ UNCHANGED sorted_events
          ELSE /\ sorted_events' = so.result
               /\ pc' = IF mode = "audit" THEN "save_audit" ELSE "fetch_scans"
               /\ exit_code' = exit_code
    /\ UNCHANGED <<mode, args_from, args_to, args_thread_count, thread_count, from_date, to_date,
                   gets, events, links, filtered_events, filtered_links, tasks,
                   curl_equivalents_for_links, gae, result_events, result_links,
                   scan_results, writer>>
    /\ UNCHANGED pureVars

SaveAudit_ignoresWriter ==
    /\ pc = "save_audit"
    /\ \E fmt \in OutputFormats, io_ok \in BOOLEAN :
         LET success == save_audit_events(sorted_events, fmt, io_ok)
         IN /\ writer' = [called |-> TRUE, op |-> "save_audit_events", output_format |-> fmt,
                          audit |-> sorted_events, scans |-> <<>>, ok |-> success]
            /\ Exit(0)
    /\ UNCHANGED <<mode, args_from, args_to, args_thread_count, thread_count, from_date, to_date,
                   gets, events, links, filtered_events, filtered_links, tasks,
                   curl_equivalents_for_links, gae, result_events, result_links,
                   sorted_events, scan_results>>
    /\ UNCHANGED pureVars

\* handle_audit_command: save_audit_events and the exit code
SaveAudit ==
    /\ pc = "save_audit"
    /\ \E fmt \in OutputFormats, io_ok \in BOOLEAN :
         LET success == save_audit_events(sorted_events, fmt, io_ok)
         IN /\ writer' = [called |-> TRUE, op |-> "save_audit_events", output_format |-> fmt,
                          audit |-> sorted_events, scans |-> <<>>, ok |-> success]
            /\ Exit(IF success THEN 0 ELSE 1)
    /\ UNCHANGED <<mode, args_from, args_to, args_thread_count, thread_count, from_date, to_date,
                   gets, events, links, filtered_events, filtered_links, tasks,
                   curl_equivalents_for_links, gae, result_events, result_links,
                   sorted_events, scan_results>>
    /\ UNCHANGED pureVars

\* convert_date_to_rfc3339 of a bound succeeds, or ValueError leaves
\* get_scan_results before its request
ScanDatesConvert(from, to) ==
    /\ (Truthy(from) => parse_flexible_date(from.s).ok)
    /\ (Truthy(to) => parse_flexible_date(to.s).ok)

FetchScans_errorIgnored ==
    /\ pc = "fetch_scans"
    /\ IF ~ScanDatesConvert(from_date, to_date)
       THEN /\ Exit(1)
            /\ UNCHANGED <<gets, scan_results>>
       ELSE \E resp \in Responses(ScanBodies) :
              LET r == get_response(Url("scans", 0), resp)
              IN /\ gets' = [gets EXCEPT !.scans = @ + r.gets]
                 /\ IF r.raised
                    THEN /\ scan_results' = [called |-> TRUE, error |-> TRUE,
                                             scans |-> <<>>, total_count |-> 0]
                         /\ pc' = IF mode = "scan" THEN "save_scans" ELSE "save_combined"
                         /\ exit_code' = exit_code
                    ELSE /\ scan_results' = [called |-> TRUE, error |-> FALSE,
                                             scans |-> r.body.scans,
                                             total_count |-> Len(r.body.scans)]
                         /\ pc' = IF mode = "scan" THEN "save_scans" ELSE "save_combined"
                         /\ exit_code' = exit_code
    /\ UNCHANGED <<mode, args_from, args_to, args_thread_count, thread_count, from_date, to_date,
                   events, links, filtered_events, filtered_links, tasks,
                   curl_equivalents_for_links, gae, result_events, result_links,
                   sorted_events, writer>>
    /\ UNCHANGED pureVars

\* get_scan_results, and the handler's check of its result
FetchScans ==
    /\ pc = "fetch_scans"
    /\ IF ~ScanDatesConvert(from_date, to_date)
       THEN /\ Exit(1)
            /\ UNCHANGED <<gets, scan_results>>
       ELSE \E resp \in Responses(ScanBodies) :
              LET r == get_response(Url("scans", 0), resp)
              IN /\ gets' = [gets EXCEPT !.scans = @ + r.gets]
                 /\ IF r.raised
                    THEN /\ scan_results' = [called |-> TRUE, error |-> TRUE,
                                             scans |-> <<>>, total_count |-> 0]
                         /\ Exit(1)
                    ELSE /\ scan_results' = [called |-> TRUE, error |-> FALSE,
                                             scans |-> r.body.scans,
                                             total_count |-> Len(r.body.scans)]
                         /\ pc' = IF mode = "scan" THEN "save_scans" ELSE "save_combined"
                         /\ exit_code' = exit_code
    /\ UNCHANGED <<mode, args_from, args_to, args_thread_count, thread_count, from_date, to_date,
                   events, links, filtered_events, filtered_links, tasks,
                   curl_equivalents_for_links, gae, result_events, result_links,
                   sorted_events, writer>>
    /\ UNCHANGED pureVars

\* handle_scan_command: save_scan_results and the exit code
SaveScans ==
    /\ pc = "save_scans"
    /\ \E fmt \in OutputFormats, io_ok \in BOOLEAN :
         LET success == save_scan_results(scan_results.scans, fmt, io_ok)
         IN /\ writer' = [called |-> TRUE, op |-> "save_scan_results", output_format |-> fmt,
                          audit |-> <<>>, scans |-> scan_results.scans, ok |-> success]
            /\ Exit(IF success THEN 0 ELSE 1)
    /\ UNCHANGED <<mode, args_from, args_to, args_thread_count, thread_count, from_date, to_date,
                   gets, events, links, filtered_events, filtered_links, tasks,
                   curl_equivalents_for_links, gae, result_events, result_links,
                   sorted_events, scan_results>>
    /\ UNCHANGED pureVars

\* handle_both_command: save_combined_data and the exit code
SaveCombined ==
    /\ pc = "save_combined"
    /\ \E fmt \in OutputFormats, io_audit \in BOOLEAN, io_scan \in BOOLEAN :
         LET success == save_combined_data(sorted_events, scan_results.scans, fmt,
                                           io_audit, io_scan)
         IN /\ writer' = [called |-> TRUE, op |-> "save_combined_data", output_format |-> fmt,
                          audit |-> sorted_events, scans |-> scan_results.scans,
                          ok |-> success]
            /\ Exit(IF success THEN 0 ELSE 1)
    /\ UNCHANGED <<mode, args_from, args_to, args_thread_count, thread_count, from_date, to_date,
                   gets, events, links, filtered_events, filtered_links, tasks,
                   curl_equivalents_for_links, gae, result_events, result_links,
                   sorted_events, scan_results>>
    /\ UNCHANGED pureVars

Next ==
    \/ ParseArgs
    \/ InitializeApi
    \/ FetchAuditRoot
    \/ SubmitLinks
    \/ \E i \in 1..MaxLinks : TaskStart(i)
    \/ \E i \in 1..MaxLinks : TaskFinish(i)
    \/ \E i \in 1..MaxLinks : Collect(i)
    \/ GaeReturn
    \/ JoinRaise
    \/ SortAudit
    \/ SaveAudit
    \/ FetchScans
    \/ SaveScans
    \/ SaveCombined

Spec == Init /\ [][Next]_vars

\* the same run for every text of --thread_count, without date arguments
InitThreads == InitRun({<<PyNone, PyNone>>}, AllThreadArgs)

SpecThreads == InitThreads /\ [][Next]_vars

\* ------------------------------------------------------------------------
\* filter_by_date applied to any list of records and any pair of bounds
\* ------------------------------------------------------------------------
BoundSet == {BoundPool[i] : i \in 1..Len(BoundPool)}

InitFilter ==
    /\ RunIdle /\ FetchIdle /\ OutputIdle
    /\ f_pc = "input"
    /\ f_events \in SeqsUpTo(EventPool, MaxRecords)
    /\ f_from \in BoundSet
    /\ f_to \in BoundSet
    /\ f_out = [raised |-> FALSE, result |-> <<>>, examined |-> 0]
    /\ f_good = [raised |-> FALSE, result |-> <<>>, examined |-> 0]

\* the records of a list that carry a timestamp isoparse accepts
Dated(evts) ==
    SelectSeq(evts, LAMBDA e : e.kind = "dict" /\ e.hasEventDate /\ isoparse(e.eventDate).ok)

\* the call on the list, and the call on the list without its undated records
CallFilter ==
    /\ f_pc = "input"
    /\ f_out' = filter_by_date(f_events, f_from, f_to)
    /\ f_good' = filter_by_date(Dated(f_events), f_from, f_to)
    /\ f_pc' = "done"
    /\ UNCHANGED <<f_events, f_from, f_to>>
    /\ UNCHANGED <<runVars, fetchVars, outputVars>>

NextFilter == CallFilter

SpecFilter == InitFilter /\ [][NextFilter]_vars

\* ------------------------------------------------------------------------
\* get_response applied to any answer of the server
\* ------------------------------------------------------------------------
StatusPool == {200, 201, 204, 299, 302, 304, 399, 400, 401, 403, 404, 429, 499, 500, 503, 599}

FetchUrls == {Url("audit", 0), Url("scans", 0), Url("link", 11), Url("link", 12)}

FetchBodies == {EmptyBody, Body("object", <<"events">>, <<EventPool[1]>>, <<>>, <<>>)}

InitFetch ==
    /\ RunIdle /\ FilterIdle /\ OutputIdle
    /\ g_pc = "input"
    /\ g_url \in FetchUrls
    /\ g_resp \in {Response(FALSE, 0, EmptyBody)}
                  \cup {Response(TRUE, st, b) : st \in StatusPool, b \in FetchBodies}
    /\ g_out = get_response(NoUrl, Response(FALSE, 0, EmptyBody))
    /\ g_calls = 0 /\ g_gets = 0

CallGetResponse ==
    /\ g_pc = "input"
    /\ g_out' = get_response(g_url, g_resp)
    /\ g_calls' = g_calls + 1
    /\ g_gets' = g_gets + get_response(g_url, g_resp).gets
    /\ g_pc' = "done"
    /\ UNCHANGED <<g_url, g_resp>>
    /\ UNCHANGED <<runVars, filterVars, outputVars>>

NextFetch == CallGetResponse

SpecFetch == InitFetch /\ [][NextFetch]_vars

\* ------------------------------------------------------------------------
\* _order_columns applied to any set of column names, in any iteration order
\* ------------------------------------------------------------------------
ColumnPool == {"FormattedEventDate", "status", "branch", "scan_id", "created_date",
               "id", "eventDate", "Zone", "_links", "details_id", "projectId"}

\* the sequences of at most n distinct elements of a set
RECURSIVE IterationsOf(_, _)
IterationsOf(S, n) ==
    IF n = 0 THEN {<<>>}
    ELSE LET shorter == IterationsOf(S, n - 1)
         IN shorter \cup UNION {{Append(q, x) : x \in S \ RangeOf(q)} :
                                   q \in {r \in shorter : Len(r) = n - 1}}

InitColumns ==
    /\ RunIdle /\ FilterIdle /\ FetchIdle
    /\ FlattenIdle /\ SaveIdle /\ ScanReqIdle /\ CurlIdle
    /\ c_pc = "input"
    /\ c_columns \in IterationsOf(ColumnPool, MaxColumns)
    /\ c_out = <<>>

CallOrderColumns ==
    /\ c_pc = "input"
    /\ c_out' = _order_columns(c_columns)
    /\ c_pc' = "done"
    /\ UNCHANGED c_columns
    /\ UNCHANGED <<runVars, filterVars, fetchVars, flattenVars, saveVars, scanReqVars,
                 curlVars>>

NextColumns == CallOrderColumns

SpecColumns == InitColumns /\ [][NextColumns]_vars

\* ------------------------------------------------------------------------
\* The flattening applied to any scan record of a pool, on any output path
\* ------------------------------------------------------------------------
\* a field the record does not have
Absent == [t |-> "absent", s |-> <<>>, n |-> 0, items |-> <<>>, keys |-> <<>>, vals |-> <<>>]

\* the record with the given fields, absent ones left out
RECURSIVE MakeRecord(_, _)
MakeRecord(ks, vs) ==
    IF Len(ks) = 0 THEN EmptyDict
    ELSE LET rest == MakeRecord(SubSeq(ks, 1, Len(ks) - 1), SubSeq(vs, 1, Len(vs) - 1))
         IN IF vs[Len(vs)] = Absent THEN rest ELSE Put(rest, ks[Len(ks)], vs[Len(vs)])

Txt_s1 == <<"s", "1">>
Txt_git == <<"g", "i", "t">>
Txt_main == <<"m", "a", "i", "n">>
Txt_dev == <<"d", "e", "v">>
Txt_sast == <<"s", "a", "s", "t">>
Txt_kics == <<"k", "i", "c", "s">>
Txt_iac == <<"i", "a", "c">>
Txt_Completed == <<"C", "o", "m", "p", "l", "e", "t", "e", "d">>
Txt_Failed == <<"F", "a", "i", "l", "e", "d">>
Txt_true == <<"t", "r", "u", "e">>
Txt_false == <<"f", "a", "l", "s", "e">>
Txt_url == <<"h", "t", "t", "p", "s", ":", "/", "/", "u", ":", "p", "@", "h", "/", "r">>
Txt_url_clean == <<"h", "t", "t", "p", "s", ":", "/", "/", "h", "/", "r">>

StatusEntry(name, status, loc) ==
    MakeRecord(<<"name", "status", "loc">>, <<name, status, loc>>)

SD_Sast1200 == StatusEntry(VStr(Txt_sast), VStr(Txt_Completed), VInt(1200))

SD_Sast0 == StatusEntry(VStr(Txt_sast), VStr(Txt_Completed), VInt(0))

SD_SastFailed == StatusEntry(VStr(Txt_sast), VStr(Txt_Failed), Absent)

SD_Kics == StatusEntry(VStr(Txt_kics), VStr(Txt_Completed), Absent)

SD_Iac == StatusEntry(VStr(Txt_iac), VStr(Txt_Completed), Absent)

SD_NoName == StatusEntry(Absent, VStr(Txt_Failed), Absent)

SD_NoStatus == StatusEntry(VStr(Txt_kics), Absent, Absent)

StatusDetailsPool ==
    {Absent, VNone, EmptyList,
     VList(<<SD_Sast1200>>), VList(<<SD_Sast0>>), VList(<<SD_SastFailed>>),
     VList(<<SD_Kics, SD_Sast1200>>), VList(<<SD_Sast1200, SD_SastFailed>>),
     VList(<<VStr(Txt_sast), SD_NoName>>), VList(<<SD_Iac, SD_NoStatus>>)}

MD_Full ==
    VDict(<<"type", "Handler", "project", "configs", "created_at">>,
          <<VStr(Txt_git),
            VDict(<<"GitHandler">>,
                  <<VDict(<<"repo_url", "branch">>, <<VStr(Txt_url), VStr(Txt_main)>>)>>),
            VDict(<<"id">>, <<VStr(<<"p", "1">>)>>),
            VList(<<VDict(<<"type", "value">>,
                          <<VStr(Txt_sast),
                            VDict(<<"presetName", "incremental">>,
                                  <<VStr(<<"B", "a", "s", "e">>), VStr(Txt_false)>>)>>),
                    VDict(<<"type", "value">>,
                          <<VStr(<<"m", "i", "c", "r", "o", "e", "n", "g", "i", "n", "e", "s">>),
                            VDict(<<"scorecard", "secrets">>,
                                  <<VStr(Txt_true), VStr(Txt_false)>>)>>)>>),
            VDict(<<"seconds">>, <<VInt(100)>>)>>)

MD_Bare == VDict(<<"type", "configs">>,
                 <<VStr(Txt_git), VList(<<VDict(<<"type">>, <<VStr(<<"s", "c", "a">>)>>)>>)>>)

MetadataPool == {Absent, MD_Full, MD_Bare, VStr(<<"m">>)}

IdPool == {Absent, VStr(Txt_s1), VNone}

CreatedAtPool == {Absent, VStr(TS_0315), VStr(TS_US)}

\* values of a field the extraction does not read
TagsPool ==
    {Absent, VNone, VStr(<<>>), VStr(<<" ">>), VStr(<<"x">>), VInt(5), VBool(TRUE),
     EmptyList, VList(<<VStr(<<"a">>), VStr(<<"b">>)>>), VList(<<VStr(<<>>)>>),
     EmptyDict, VDict(<<"k">>, <<VStr(<<"v">>)>>)}

ScanOf(id, md, ca, sd, tg) ==
    MakeRecord(<<"id", "branch", "metadata", "createdAt", "statusDetails", "tags">>,
               <<id, IF md = MD_Bare THEN VStr(Txt_dev) ELSE Absent, md, ca, sd, tg>>)

\* every statusDetails with every unread field, and every id, metadata and
\* createdAt with one statusDetails and one unread field
ScanRecords ==
    {ScanOf(VStr(Txt_s1), Absent, Absent, sd, tg) :
        sd \in StatusDetailsPool, tg \in TagsPool}
    \cup {ScanOf(id, md, ca, VList(<<SD_Sast1200>>), VList(<<VStr(<<"a">>), VStr(<<"b">>)>>)) :
        id \in IdPool, md \in MetadataPool, ca \in CreatedAtPool}

InitFlatten ==
    /\ RunIdle /\ FilterIdle /\ FetchIdle
    /\ ColumnIdle /\ SaveIdle /\ ScanReqIdle /\ CurlIdle
    /\ x_pc = "input"
    /\ x_scan \in ScanRecords
    /\ x_path \in OutputPaths
    /\ x_out = <<>>

FlattenedTwice(once, path) ==
    [raised |-> once.raised,
     row |-> once.row,
     written |-> WrittenScanRow(once.row, path),
     again |-> FlattenScan(once.row, path)]

\* the record is flattened, its row is written, and the row is flattened again
CallFlatten ==
    /\ x_pc = "input"
    /\ x_out' = FlattenedTwice(FlattenScan(x_scan, x_path), x_path)
    /\ x_pc' = "done"
    /\ UNCHANGED <<x_scan, x_path>>
    /\ UNCHANGED <<runVars, filterVars, fetchVars, columnVars, saveVars, scanReqVars,
                 curlVars>>

NextFlatten == CallFlatten

SpecFlatten == InitFlatten /\ [][NextFlatten]_vars

\* ------------------------------------------------------------------------
\* What the texts of the pools denote (year*10000 + month*100 + day; 0 when
\* the text is no date, or the record has no eventDate)
\* ------------------------------------------------------------------------
ExpectedDay(id) ==
    CASE id = 1 -> 20240315
      [] id = 2 -> 20240316
      [] id = 3 -> 20240314
      [] id = 6 -> 20240229
      [] id = 7 -> 20231231
      [] id = 8 -> 20250101
      [] id = 11 -> 20240315
      [] id = 12 -> 20240317
      [] id = 14 -> 20240315
      [] OTHER -> 0

BoundDay(a) ==
    CASE a = PyStr(D_0315) -> 20240315
      [] a = PyStr(D_0315s) -> 20240315
      [] a = PyStr(D_0316) -> 20240316
      [] a = PyStr(D_1231) -> 20231231
      [] a = PyStr(D_1969) -> 19690101
      [] a = PyStr(D_0215) -> 20240215
      [] OTHER -> 0

\* a bound was supplied: a non-empty text
Given(a) == ~a.none /\ a.s # <<>>

InExpectedRange(e, from, to) ==
    /\ e.kind = "dict"
    /\ ExpectedDay(e.id) > 0
    /\ (Given(from) => BoundDay(from) <= ExpectedDay(e.id))
    /\ (Given(to) => ExpectedDay(e.id) <= BoundDay(to))

ItemIds(q) == [i \in 1..Len(q) |-> q[i].id]

CountId(q, id) == Cardinality({i \in 1..Len(q) : q[i].kind = "dict" /\ q[i].id = id})

\* ------------------------------------------------------------------------
\* Properties
\* ------------------------------------------------------------------------
NestedEvents(body) == IF body.kind = "object" THEN body.events ELSE <<>>

RootSurvivors == EventsToKeep(events, from_date, to_date).result

FromSuccessfulLinks(id) ==
    Cardinality({p \in (1..Len(tasks)) \X (1..Len(LinkEventPool)) :
                   /\ tasks[p[1]].state = "done" /\ ~tasks[p[1]].raised
                   /\ p[2] <= Len(NestedEvents(tasks[p[1]].body))
                   /\ NestedEvents(tasks[p[1]].body)[p[2]].id = id})

\* C1: when get_audit_events returns, its events are exactly the surviving
\* root records plus the records of the nested events list of every link
\* whose fetch succeeded, and every element is a record mapping.
C1_MergedIsRootPlusLinkRecords ==
    gae.state = "returned" =>
        /\ \A k \in 1..Len(result_events) : result_events[k].kind = "dict"
        /\ \A id \in 1..8 :
             CountId(result_events, id) = CountId(RootSurvivors, id) + FromSuccessfulLinks(id)

\* C2: whatever link tasks raise, no exception leaves the collection loop of
\* get_audit_events, every task is run to its end and exactly the links
\* whose task returned have contributed.
C2_LinkFailuresAreIsolated ==
    /\ pc # "join_raise"
    /\ gae.exc # "KeyError"
    /\ gae.state = "returned" =>
          /\ \A i \in 1..Len(tasks) : tasks[i].state = "done"
          /\ Len(curl_equivalents_for_links) =
                Cardinality({i \in 1..Len(tasks) : ~tasks[i].raised})

\* C3: the audit command exits 0 whenever authentication and the root fetch
\* succeeded, get_audit_events returned and the writer did not fail,
\* whatever the links and the outcomes of their fetches.
C3_AuditExitsZeroWhateverTheLinks ==
    ( /\ mode = "audit"
      /\ pc = "exit"
      /\ gets.audit = 1
      /\ gae.state = "returned"
      /\ ~(writer.called /\ ~writer.ok) )
    => exit_code = 0

Dispatched == \/ gae.state = "returned"
              \/ gae.state = "running" /\ pc # "submit"
              \/ gae.state = "raised" /\ gae.exc = "KeyError"

\* C4: with a bound given, no link request precedes the date filter of the
\* two lists, one task is dispatched for each link whose eventDate lies in
\* the range, in list order, none for any other link, and a task issues at
\* most one request.
C4_OneTaskPerSurvivingLink ==
    /\ (gae.state = "idle" \/ pc = "submit") => (gets.link = 0 /\ tasks = <<>>)
    /\ ((Given(from_date) \/ Given(to_date)) /\ pc = "submit") =>
          /\ filtered_events = SelectSeq(events, LAMBDA e : InExpectedRange(e, from_date, to_date))
          /\ filtered_links = SelectSeq(links, LAMBDA e : InExpectedRange(e, from_date, to_date))
    /\ ((Given(from_date) \/ Given(to_date)) /\ Dispatched) =>
          /\ Len(tasks) = Len(filtered_links)
          /\ filtered_links = SelectSeq(links, LAMBDA e : InExpectedRange(e, from_date, to_date))
          /\ gets.link = Cardinality({i \in 1..Len(tasks) : tasks[i].requested})

C4_Witness ==
    /\ Given(from_date)
    /\ Len(links) = 2
    /\ links[2].id = 13
    /\ Len(tasks) = 1
    /\ tasks[1].requested
    /\ gets.link = 1

\* C5: with two valid bounds the result holds exactly the records whose
\* eventDate date lies in [from, to], ends included, in input order.
C5_FilterKeepsExactlyTheRange ==
    (f_pc = "done" /\ BoundDay(f_from) > 0 /\ BoundDay(f_to) > 0) =>
        /\ ~f_out.raised
        /\ f_out.result = SelectSeq(f_events, LAMBDA e : InExpectedRange(e, f_from, f_to))

C5_Witness ==
    /\ f_pc = "done"
    /\ f_from = PyStr(D_0315)
    /\ f_to = PyStr(D_0315)
    /\ ItemIds(f_events) = <<2, 1>>
    /\ ItemIds(f_out.result) = <<1>>

\* C6: without a from and a to bound the filter returns a list of records
\* that all carry a valid timestamp unchanged.
C6_NoBoundsIsIdentity ==
    ( /\ f_pc = "done"
      /\ ~Given(f_from) /\ ~Given(f_to)
      /\ \A i \in 1..Len(f_events) : ExpectedDay(f_events[i].id) > 0 )
    => (~f_out.raised /\ f_out.result = f_events)

C6_Witness ==
    /\ f_pc = "done"
    /\ f_from = PyNone /\ f_to = PyNone
    /\ ItemIds(f_events) = <<8, 7>>
    /\ f_out.result = f_events

\* C7: a record without eventDate, or with one that does not parse, is not
\* in the result, raises nothing, and the result is the one the list
\* without such records gives.
C7_UndatedRecordsAreDroppedAlone ==
    f_pc = "done" =>
        /\ \A i \in 1..Len(f_out.result) : ExpectedDay(f_out.result[i].id) > 0
        /\ f_out.raised = f_good.raised
        /\ f_out.result = f_good.result
        /\ (~Given(f_from) \/ BoundDay(f_from) > 0) /\ (~Given(f_to) \/ BoundDay(f_to) > 0)
              => ~f_out.raised

C7_Witness ==
    /\ f_pc = "done"
    /\ ItemIds(f_events) = <<4, 1>>
    /\ f_to = PyStr(D_0316)
    /\ ItemIds(f_out.result) = <<1>>

\* C8 as stated: any from or to string that is neither MM/DD/YYYY nor
\* MM/DD/YY makes the call raise before a record is examined.
C8_AnyUnreadableBoundRaises ==
    ( /\ f_pc = "done"
      /\ \/ ~f_from.none /\ BoundDay(f_from) = 0
         \/ ~f_to.none /\ BoundDay(f_to) = 0 )
    => (f_out.raised /\ f_out.examined = 0 /\ f_out.result = <<>>)

\* C8: a non-empty from or to string that is neither MM/DD/YYYY nor
\* MM/DD/YY makes the call raise before a record is examined, with no
\* partial result; an empty string counts as no bound.
C8_NonEmptyUnreadableBoundRaises ==
    ( /\ f_pc = "done"
      /\ \/ Given(f_from) /\ BoundDay(f_from) = 0
         \/ Given(f_to) /\ BoundDay(f_to) = 0 )
    => (f_out.raised /\ f_out.examined = 0 /\ f_out.result = <<>>)

C8_Witness ==
    /\ f_pc = "done"
    /\ f_from = PyStr(D_0315)
    /\ f_to = PyStr(D_0230)
    /\ Len(f_events) = 2
    /\ f_out.raised

\* C9: in every mode a supplied bound that is no valid date ends the run
\* with a non-zero exit code, and no request to the audit, link or scans
\* resource is issued.
C9_UnreadableBoundAbortsBeforeAnyRequest ==
    ( \/ Given(args_from) /\ BoundDay(args_from) = 0
      \/ Given(args_to) /\ BoundDay(args_to) = 0 )
    => /\ gets.audit = 0 /\ gets.link = 0 /\ gets.scans = 0
       /\ pc = "exit" => exit_code # 0

NotAnInteger == 0 - 1000

ThreadArgDenotes(a) ==
    CASE a = PyStr(<<"-", "1">>) -> 0 - 1
      [] a = PyStr(<<"0">>) -> 0
      [] a = PyStr(<<"1">>) -> 1
      [] a = PyStr(<<"2">>) -> 2
      [] a = PyStr(<<"3">>) -> 3
      [] a = PyStr(<<"4">>) -> 4
      [] a = PyStr(<<"5">>) -> 5
      [] a = PyStr(<<"6">>) -> 6
      [] a = PyStr(<<"7">>) -> 7
      [] a = PyStr(<<"8">>) -> 8
      [] a = PyStr(<<"1", "0">>) -> 10
      [] a = PyStr(<<"+", "7">>) -> 7
      [] a = PyStr(<<"0", "7">>) -> 7
      [] a = PyStr(<<" ", "2">>) -> 2
      [] a = PyStr(<<"7", "0">>) -> 70
      [] OTHER -> NotAnInteger

\* the pool of get_audit_events exists
PoolCreated == pc \in {"collect", "join_raise"} \/ Len(tasks) > 0 \/ gae.state = "returned"

\* C11: restricted_int_threads returns an integer of 1..7 as it is and
\* rejects every other integer, so the worker pool of get_audit_events
\* always has a size in 1..7 and never runs more tasks at once than that.
C11_PoolSizeWithinOneToSeven ==
    /\ pc # "parse_args" =>
         IF args_thread_count = PyNone
         THEN thread_count = 4 /\ exit_code # 2
         ELSE IF ThreadArgDenotes(args_thread_count) \in 1..7
         THEN thread_count = ThreadArgDenotes(args_thread_count) /\ exit_code # 2
         ELSE /\ pc = "exit" /\ exit_code = 2
              /\ gets = [audit |-> 0, link |-> 0, scans |-> 0]
              /\ ~PoolCreated
    /\ PoolCreated => (thread_count \in 1..7 /\ Cardinality(Running) <= thread_count)

C11_Witness ==
    /\ args_thread_count = PyStr(<<"0", "7">>)
    /\ thread_count = 7
    /\ PoolCreated
    /\ Len(tasks) = 2
    /\ Cardinality(Running) = 2

\* the names of ColumnPool in the order the claim describes: those of the
\* priority list as the list has them, then the others in code point order
ExpectedColumnOrder ==
    <<"FormattedEventDate", "created_date", "status", "branch", "scan_id",
      "Zone", "_links", "details_id", "eventDate", "id", "projectId">>

\* C12: _order_columns returns the names of the priority list that occur in
\* the set, in the list's order, then the other names in ascending
\* lexicographic order; the result is a permutation of the set and is the
\* same for every iteration order of the set.
C12_PriorityThenAlphabetical ==
    c_pc = "done" =>
        /\ c_out = SelectSeq(ExpectedColumnOrder, LAMBDA col : col \in RangeOf(c_columns))
        /\ Len(c_out) = Cardinality(RangeOf(c_columns))
        /\ RangeOf(c_out) = RangeOf(c_columns)

C12_Witness ==
    /\ c_pc = "done"
    /\ c_columns = <<"id", "scan_id", "Zone">>
    /\ c_out = <<"scan_id", "Zone", "id">>

\* ------------------------------------------------------------------------
\* What the flattening of a scan record is expected to give
\* ------------------------------------------------------------------------
Max(S) == CHOOSE x \in S : \A y \in S : y <= x

\* the column of an engine's status
StatusColumn(engine) ==
    CASE engine = "general" -> "general_status"
      [] engine = "sast" -> "sast_status"
      [] engine = "sca" -> "sca_status"
      [] engine = "apisec" -> "apisec_status"
      [] engine = "containers" -> "containers_status"
      [] engine = "kics" -> "kics_status"
      [] engine = "microengines" -> "microengines_status"

\* the loc values of the pool, written as text
LocText(loc) ==
    CASE loc = VInt(1200) -> <<"1", "2", "0", "0">>
      [] loc = VInt(0) -> <<"0">>

\* the entries of statusDetails that are mappings naming the engine
EngineEntries(status_details, engine) ==
    IF IsList(status_details)
    THEN {i \in 1..Len(status_details.items) :
            /\ IsDict(status_details.items[i])
            /\ Get(status_details.items[i], "name", VNone) = VStr(Spelling(engine))}
    ELSE {}

\* C13 as stated: every known engine status and sast_lines_of_code is 'NA'
\* unless statusDetails has an entry of that engine; then the status is
\* the entry's status and sast_lines_of_code is the entry's loc as a string.
C13_EngineStatusesLocAsString ==
    (x_pc = "done" /\ ~x_out.raised) =>
        LET sd == Get(x_scan, "statusDetails", EmptyList)
            sast == EngineEntries(sd, "sast")
        IN /\ \A k \in 1..Len(KnownEngines) :
                LET entries == EngineEntries(sd, KnownEngines[k])
                    column == Get(x_out.row, StatusColumn(KnownEngines[k]), VNone)
                IN IF entries = {} THEN column = NA
                   ELSE \E i \in entries : column = Get(sd.items[i], "status", NA)
           /\ IF sast = {} THEN Get(x_out.row, "sast_lines_of_code", VNone) = NA
              ELSE \E i \in sast :
                     Get(x_out.row, "sast_lines_of_code", VNone) =
                        IF Has(sd.items[i], "loc")
                        THEN VStr(LocText(Get(sd.items[i], "loc", VNone)))
                        ELSE NA

\* C13: every known engine status and sast_lines_of_code is 'NA' unless
\* statusDetails is a list with a mapping entry of that engine; then the
\* status is the status of the last such entry ('NA' if it has none) and
\* sast_lines_of_code is that entry's loc as a string when the loc is
\* present and not 0, and 'NA' otherwise.
C13_EngineStatusesNonZeroLoc ==
    (x_pc = "done" /\ ~x_out.raised) =>
        LET sd == Get(x_scan, "statusDetails", EmptyList)
            sast == EngineEntries(sd, "sast")
        IN /\ \A k \in 1..Len(KnownEngines) :
                LET entries == EngineEntries(sd, KnownEngines[k])
                    column == Get(x_out.row, StatusColumn(KnownEngines[k]), VNone)
                IN IF entries = {} THEN column = NA
                   ELSE column = Get(sd.items[Max(entries)], "status", NA)
           /\ Get(x_out.row, "sast_lines_of_code", VNone) =
                 IF sast # {} /\ Has(sd.items[Max(sast)], "loc")
                    /\ Get(sd.items[Max(sast)], "loc", VNone) # VInt(0)
                 THEN VStr(LocText(Get(sd.items[Max(sast)], "loc", VNone)))
                 ELSE NA

C13_Witness ==
    /\ x_pc = "done"
    /\ Get(x_scan, "statusDetails", VNone) = VList(<<SD_Sast1200>>)
    /\ Get(x_out.row, "sast_status", VNone) = VStr(Txt_Completed)
    /\ Get(x_out.row, "sast_lines_of_code", VNone) = VStr(<<"1", "2", "0", "0">>)
    /\ Get(x_out.row, "kics_status", VNone) = NA

\* what the claim gives for the values of the unread field of the pool
ExpectedTags(value) ==
    CASE value = VNone -> NA
      [] value = VStr(<<>>) -> NA
      [] value = VStr(<<" ">>) -> NA
      [] value = VStr(<<"x">>) -> VStr(<<"x">>)
      [] value = VInt(5) -> VInt(5)
      [] value = VBool(TRUE) -> VBool(TRUE)
      [] value = EmptyList -> NA
      [] value = VList(<<VStr(<<"a">>), VStr(<<"b">>)>>) -> VStr(<<"a", ",", " ", "b">>)
      [] value = VList(<<VStr(<<>>)>>) -> VStr(<<>>)
      [] value = EmptyDict -> NA
      [] value = VDict(<<"k">>, <<VStr(<<"v">>)>>) ->
            VStr(<<"{", "'", "k", "'", ":", " ", "'", "v", "'", "}">>)

\* the same for any value, by the rule of the claim
ExpectedPassThrough(value) ==
    IF value \in TagsPool THEN ExpectedTags(value)
    ELSE IF IsBlank(value) THEN NA
    ELSE IF IsList(value)
    THEN VStr(Join(CommaSpace, [i \in 1..Len(value.items) |-> PyStrOf(value.items[i])]))
    ELSE IF IsDict(value) THEN VStr(PyStrOf(value))
    ELSE value

\* the fields of the record that the fixed extraction does not produce
PassedThrough(scan) ==
    {k \in RangeOf(scan.keys) : ~Has(_extract_scan_fields(scan).extracted, k)}

\* C14 as stated: on each of the four output paths the flattened row has
\* every field the extraction does not produce under its own key, None
\* and blank values as 'NA', a list joined with ', ' ('NA' if empty), a
\* mapping as its string ('NA' if empty), any other value unchanged.
C14_PassThroughOnEveryPath ==
    (x_pc = "done" /\ ~x_out.raised) =>
        \A k \in PassedThrough(x_scan) :
            /\ Has(x_out.row, k)
            /\ Get(x_out.row, k, VNone) = ExpectedPassThrough(Get(x_scan, k, VNone))

\* C14: the same on the scan CSV path and the two workbook paths; on the
\* combined CSV path the flattened row keeps None and blank values as they
\* are and they become 'NA' when the CSV writer writes the row, like every
\* blank value of a row on a CSV path.
C14_PassThroughBlankByPath ==
    (x_pc = "done" /\ ~x_out.raised) =>
        \A k \in PassedThrough(x_scan) :
            LET value == Get(x_scan, k, VNone)
                stored == Get(x_out.row, k, VNone)
                cell == Get(x_out.written, k, VNone)
            IN /\ Has(x_out.row, k) /\ Has(x_out.written, k)
               /\ stored = IF x_path = "combined_csv" /\ IsBlank(value) THEN value
                           ELSE ExpectedPassThrough(value)
               /\ cell = IF x_path \in {"scan_csv", "combined_csv"}
                            /\ ExpectedPassThrough(value) = VStr(<<>>)
                         THEN NA
                         ELSE ExpectedPassThrough(value)

C14_Witness ==
    /\ x_pc = "done"
    /\ x_path = "combined_csv"
    /\ Get(x_scan, "tags", Absent) = VNone
    /\ Get(x_out.row, "tags", Absent) = VNone
    /\ Get(x_out.written, "tags", Absent) = NA

\* ------------------------------------------------------------------------
\* The rows of audit events: _process_audit_events, _add_audit_worksheet
\* ------------------------------------------------------------------------
AuditPaths == {"audit_csv", "audit_excel", "combined_csv", "combined_excel"}

DetailKeys == <<"id", "status", "username">>

DetailColumns == <<"details_id", "details_status", "details_username">>

\* new_event["details_*"] = data.get(...), for the three keys in turn
RECURSIVE PutDetails(_, _, _, _)
PutDetails(row, data, i, default) ==
    IF i > Len(DetailKeys) THEN row
    ELSE PutDetails(Put(row, DetailColumns[i], Get(data, DetailKeys[i], default)),
                    data, i + 1, default)

\* the body of the loop of _process_audit_events: a copy of the event, the
\* three details of a mapping under "data", and "data" removed
ProcessAuditEvent(event) ==
    IF Has(event, "data")
    THEN LET data == Get(event, "data", VNone)
         IN Pop(IF IsDict(data) THEN PutDetails(event, data, 1, VNone) ELSE event, "data")
    ELSE event

_process_audit_events(evs) == [i \in 1..Len(evs) |-> ProcessAuditEvent(evs[i])]

\* _write_csv and _write_excel: None and blank values of a row become 'NA'
\* (BlanksToNA, defined with the scan rows)

\* the row of _add_audit_worksheet: "data" is read and removed only when it
\* is a mapping, missing details are 'NA', blank values become 'NA'
AuditWorksheetRow(event) ==
    BlanksToNA(
        IF Has(event, "data") /\ IsDict(Get(event, "data", VNone))
        THEN Pop(PutDetails(event, Get(event, "data", VNone), 1, NA), "data")
        ELSE event)

\* the row built for an audit event on the way to the file:
\* save_audit_events (line 48) and save_combined_data (line 163) call
\* _process_audit_events, _save_combined_excel calls _add_audit_worksheet
AuditRow(event, path) ==
    IF path = "combined_excel" THEN AuditWorksheetRow(event) ELSE ProcessAuditEvent(event)

\* the values that reach the csv writer or the cells of the sheet
WrittenAuditRow(event, path) ==
    IF path = "combined_excel" THEN AuditWorksheetRow(event)
    ELSE BlanksToNA(ProcessAuditEvent(event))

\* ------------------------------------------------------------------------
\* Audit events flattened on their own
\* ------------------------------------------------------------------------
Txt_e1 == <<"e", "1">>
Txt_alice == <<"a", "l", "i", "c", "e">>
Txt_login == <<"l", "o", "g", "i", "n">>

DataPool ==
    {Absent, VNone, EmptyDict, EmptyList, VStr(<<"x">>),
     VDict(<<"id", "status", "username">>, <<VStr(Txt_s1), VStr(Txt_Completed), VStr(Txt_alice)>>),
     VDict(<<"id">>, <<VStr(Txt_s1)>>),
     VDict(<<"id", "status", "k">>, <<VInt(7), VStr(<<>>), VList(<<VStr(<<"a">>)>>)>>)}

\* values of a field of the event other than "data"
CustomPool ==
    {Absent, VNone, VStr(<<" ">>), VStr(<<"x">>), VInt(5),
     EmptyList, VList(<<VStr(<<"a">>)>>), VDict(<<"k">>, <<VStr(<<"v">>)>>)}

AuditEventOf(data, custom) ==
    MakeRecord(<<"id", "actionType", "data", "custom">>,
               <<VStr(Txt_e1), VStr(Txt_login), data, custom>>)

AuditRecords == {AuditEventOf(d, c) : d \in DataPool, c \in CustomPool}

InitAuditRows ==
    /\ RunIdle /\ FilterIdle /\ FetchIdle
    /\ ColumnIdle /\ SaveIdle /\ ScanReqIdle /\ CurlIdle
    /\ x_pc = "input"
    /\ x_scan \in AuditRecords
    /\ x_path \in AuditPaths
    /\ x_out = <<>>

\* the event is flattened, its row is written, and the row is flattened again
CallProcessAudit ==
    /\ x_pc = "input"
    /\ LET row == AuditRow(x_scan, x_path)
       IN x_out' = [raised |-> FALSE,
                    row |-> row,
                    written |-> WrittenAuditRow(x_scan, x_path),
                    again |-> [raised |-> FALSE, row |-> AuditRow(row, x_path)]]
    /\ x_pc' = "done"
    /\ UNCHANGED <<x_scan, x_path>>
    /\ UNCHANGED <<runVars, filterVars, fetchVars, columnVars, saveVars, scanReqVars,
                 curlVars>>

NextAuditRows == CallProcessAudit

SpecAuditRows == InitAuditRows /\ [][NextAuditRows]_vars

\* ------------------------------------------------------------------------
\* C15
\* ------------------------------------------------------------------------
IsScalar(v) == ~IsList(v) /\ ~IsDict(v)

\* the keys an audit row is expected to have: the fields of the event other
\* than "data", and the three details when "data" is a mapping
ExpectedAuditKeys(event) ==
    (RangeOf(event.keys) \ {"data"})
    \cup (IF Has(event, "data") /\ IsDict(Get(event, "data", VNone))
          THEN RangeOf(DetailColumns) ELSE {})

\* C15: every row handed to the CSV or Excel writer has as keys the extracted
\* fixed fields and the passed-through original fields, and every value that
\* reaches the file is a scalar: no list and no dict of the source record is
\* left in a written row.
C15_WrittenRowsAreScalar ==
    (x_pc = "done" /\ x_path \in AuditPaths /\ Has(x_scan, "actionType")) =>
        /\ RangeOf(x_out.written.keys) = ExpectedAuditKeys(x_scan)
        /\ \A i \in 1..Len(x_out.written.vals) : IsScalar(x_out.written.vals[i])

\* C15, what the code guarantees for an audit event: the details are scalar
\* only if they are in the data, every other field is written as it is
C15_AuditFieldsAreCopied ==
    (x_pc = "done" /\ Has(x_scan, "actionType")) =>
        \A i \in 1..Len(x_scan.keys) :
            (x_scan.keys[i] # "data" /\ ~IsBlank(x_scan.vals[i])) =>
                Get(x_out.written, x_scan.keys[i], Absent) = x_scan.vals[i]

C15_NestedValueSurvives ==
    /\ x_pc = "done" /\ x_path = "audit_csv"
    /\ Get(x_scan, "custom", Absent) = VList(<<VStr(<<"a">>)>>)
    /\ Get(x_out.written, "custom", Absent) = VList(<<VStr(<<"a">>)>>)

\* ------------------------------------------------------------------------
\* C16
\* ------------------------------------------------------------------------
\* the fixed fields of a scan row: the keys _extract_scan_fields produces
FixedScanFields(scan) == RangeOf(_extract_scan_fields(scan).extracted.keys)

\* C16: flattening the flattened row of a scan record gives the same value
\* as the first flattening for every fixed field (scan_id, repository_type,
\* repository_url, branch, project_id, the configuration fields,
\* created_date, the engine statuses and sast_lines_of_code); so do the
\* details_id, details_status and details_username of an audit event.
C16_FlatteningIsIdempotentOnFixedFields ==
    (x_pc = "done" /\ ~x_out.raised) =>
        IF Has(x_scan, "actionType")
        THEN \A i \in 1..Len(DetailColumns) :
                 Get(x_out.again.row, DetailColumns[i], Absent)
                     = Get(x_out.row, DetailColumns[i], Absent)
        ELSE /\ ~x_out.again.raised
             /\ \A k \in FixedScanFields(x_scan) :
                    Get(x_out.again.row, k, Absent) = Get(x_out.row, k, Absent)

\* the record of the example: statusDetails [{name: sast, status: Completed,
\* loc: 1200}] gives sast_status 'Completed' once and 'NA' the second time
C16_StatusLostOnSecondPass ==
    /\ x_pc = "done" /\ ~x_out.raised /\ ~x_out.again.raised
    /\ Get(x_scan, "statusDetails", Absent) = VList(<<SD_Sast1200>>)
    /\ Get(x_out.row, "sast_status", Absent) = VStr(Txt_Completed)
    /\ Get(x_out.again.row, "sast_status", Absent) = NA

\* ------------------------------------------------------------------------
\* Workbooks: create_sheet, _add_scan_worksheets_by_engine,
\* _add_audit_worksheet, _save_scans_only_excel, _save_combined_excel
\* ------------------------------------------------------------------------
Txt_Scans == <<"S", "c", "a", "n", "s">>
Txt_NoData == <<"N", "o", " ", "D", "a", "t", "a">>
Txt_AuditEvents == <<"A", "u", "d", "i", "t", " ", "E", "v", "e", "n", "t", "s">>
Txt_AuditTrailResults ==
    <<"A", "u", "d", "i", "t", " ", "T", "r", "a", "i", "l", " ",
      "R", "e", "s", "u", "l", "t", "s">>
Txt_UnknownEngine ==
    <<"U", "n", "k", "n", "o", "w", "n", " ", "E", "n", "g", "i", "n", "e">>

\* scan.get("engine", scan.get("scanEngine", scan.get("type", "Unknown Engine")))
EngineOf(scan) ==
    Get(scan, "engine", Get(scan, "scanEngine", Get(scan, "type", VStr(Txt_UnknownEngine))))

\* the engines dict of lines 288-294: one entry per engine value, in the
\* order of the first scan of each, with the scans of that value in order
RECURSIVE GroupByEngine(_, _)
GroupByEngine(groups, scans) ==
    IF Len(scans) = 0 THEN groups
    ELSE LET engine == EngineOf(Head(scans))
             found == {i \in 1..Len(groups) : groups[i].engine = engine}
         IN GroupByEngine(
                IF found = {}
                THEN Append(groups, [engine |-> engine, scans |-> <<Head(scans)>>])
                ELSE [groups EXCEPT ![CHOOSE i \in found : TRUE].scans = Append(@, Head(scans))],
                Tail(scans))

\* str(engine_name).replace("/", "-")[:31]
safe_name(engine_name) ==
    LET text == PyStrOf(engine_name)
        replaced == [i \in 1..Len(text) |-> IF text[i] = "/" THEN "-" ELSE text[i]]
    IN SubSeq(replaced, 1, IF Len(replaced) < 31 THEN Len(replaced) ELSE 31)

\* the title the workbook gives a new sheet: the requested title, or the
\* requested title with the first free number when it is taken
SheetTitle(sheets, title) ==
    LET taken == {sheets[i].title : i \in 1..Len(sheets)}
    IN IF title \notin taken THEN title
       ELSE title \o Digits(Min({k \in 1..(Len(sheets) + 1) : (title \o Digits(k)) \notin taken}))

\* the title asked for the sheet of an engine: title=f"Scans" (line 300)
TitleOfEngineSheet(engine_name) == Txt_Scans

\* a cell takes numbers, texts and booleans only
CellsOk(rows) ==
    \A i \in 1..Len(rows) : \A j \in 1..Len(rows[i].vals) :
        ~IsList(rows[i].vals[j]) /\ ~IsDict(rows[i].vals[j])

NoSheets == [raised |-> FALSE, sheets |-> <<>>]

\* the sheet of one engine (lines 299-336): flat holds the flattened scans
AddEngineSheet(book, engine_name, flat) ==
    LET rows == [i \in 1..Len(flat) |-> flat[i].row]
        sheet == [title |-> SheetTitle(book.sheets, TitleOfEngineSheet(engine_name)),
                  category |-> engine_name, rows |-> rows]
    IN IF \E i \in 1..Len(flat) : flat[i].raised
       THEN [raised |-> TRUE, sheets |-> Append(book.sheets, [sheet EXCEPT !.rows = <<>>])]
       ELSE [raised |-> ~CellsOk(rows), sheets |-> Append(book.sheets, sheet)]

FlattenAll(scans, path) == [i \in 1..Len(scans) |-> FlattenScan(scans[i], path)]

\* the loop of lines 297-336 over the engines; an exception ends it
RECURSIVE AddEngineSheets(_, _)
AddEngineSheets(book, groups) ==
    IF book.raised \/ Len(groups) = 0 THEN book
    ELSE AddEngineSheets(AddEngineSheet(book, Head(groups).engine,
                                        FlattenAll(Head(groups).scans, "scan_excel")),
                         Tail(groups))

_add_scan_worksheets_by_engine(book, scan_events) ==
    AddEngineSheets(book, GroupByEngine(<<>>, scan_events))

_add_audit_worksheet(book, audit_events, sheet_name) ==
    LET rows == [i \in 1..Len(audit_events) |-> AuditWorksheetRow(audit_events[i])]
    IN [raised |-> ~CellsOk(rows),
        sheets |-> Append(book.sheets, [title |-> SheetTitle(book.sheets, sheet_name),
                                        category |-> Absent, rows |-> rows])]

\* ------------------------------------------------------------------------
\* The files: os.makedirs, open, workbook.save
\* ------------------------------------------------------------------------
\* io.mkdir: "exists" when the output folder is there, else what makedirs
\* does; io.write, io.write2: what writing the first, the second file does
IoOutcomes == {"ok", "PermissionError", "OSError"}

FolderReady(mkdir) == mkdir \in {"exists", "ok"}

\* what a helper reports: raised (an exception leaves it), ok (its return
\* value), io_failed (makedirs or the write failed), the files written
Outcome(raised, ok, io_failed, files) ==
    [raised |-> raised, ok |-> ok, io_failed |-> io_failed, files |-> files]

\* _write_csv
_write_csv(json_list, name, mkdir, write) ==
    IF Len(json_list) = 0 THEN Outcome(FALSE, TRUE, FALSE, <<>>)
    ELSE IF ~FolderReady(mkdir) THEN Outcome(TRUE, FALSE, TRUE, <<>>)
    ELSE IF write # "ok" THEN Outcome(FALSE, FALSE, TRUE, <<>>)
    ELSE Outcome(FALSE, TRUE, FALSE,
                 <<[name |-> name,
                    sheets |-> <<[title |-> <<>>, category |-> Absent,
                                  rows |-> [i \in 1..Len(json_list) |->
                                               BlanksToNA(json_list[i])]]>>]>>)

\* _write_excel
_write_excel(json_list, name, mkdir, write) ==
    LET rows == [i \in 1..Len(json_list) |-> BlanksToNA(json_list[i])]
    IN IF Len(json_list) = 0 THEN Outcome(FALSE, TRUE, FALSE, <<>>)
       ELSE IF ~FolderReady(mkdir) THEN Outcome(TRUE, FALSE, TRUE, <<>>)
       ELSE IF ~CellsOk(rows) THEN Outcome(TRUE, FALSE, FALSE, <<>>)
       ELSE IF write # "ok" THEN Outcome(FALSE, FALSE, TRUE, <<>>)
       ELSE Outcome(FALSE, TRUE, FALSE,
                    <<[name |-> name,
                       sheets |-> <<[title |-> Txt_AuditTrailResults, category |-> Absent,
                                     rows |-> rows]>>]>>)

\* the end of both workbook helpers: a workbook without sheets cannot be
\* saved, every exception is caught and gives False
SaveWorkbook(book, name, mkdir, write) ==
    IF ~FolderReady(mkdir) THEN Outcome(FALSE, FALSE, TRUE, <<>>)
    ELSE IF book.raised \/ Len(book.sheets) = 0 THEN Outcome(FALSE, FALSE, FALSE, <<>>)
    ELSE IF write # "ok" THEN Outcome(FALSE, FALSE, TRUE, <<>>)
    ELSE Outcome(FALSE, TRUE, FALSE, <<[name |-> name, sheets |-> book.sheets]>>)

_save_scans_only_excel(scan_events, name, mkdir, write) ==
    SaveWorkbook(IF Len(scan_events) > 0
                 THEN _add_scan_worksheets_by_engine(NoSheets, scan_events)
                 ELSE [raised |-> FALSE,
                       sheets |-> <<[title |-> Txt_NoData, category |-> Absent,
                                     rows |-> <<>>]>>],
                 name, mkdir, write)

_save_combined_excel(audit_events, scan_events, name, mkdir, write) ==
    LET b1 == IF Len(audit_events) > 0
              THEN _add_audit_worksheet(NoSheets, audit_events, Txt_AuditEvents)
              ELSE NoSheets
        b2 == IF ~b1.raised /\ Len(scan_events) > 0
              THEN _add_scan_worksheets_by_engine(b1, scan_events)
              ELSE b1
    IN SaveWorkbook(b2, name, mkdir, write)

\* ------------------------------------------------------------------------
\* The three save operations with their files
\* ------------------------------------------------------------------------
SaveFormats == {"csv", "Excel", "json"}

\* output_format.lower()
Lower(output_format) == IF output_format = "Excel" THEN "excel" ELSE output_format

Caught_nothing(r) == r

\* "except Exception as e: logger.error(...); return False"
Caught(r) == IF r.raised THEN [r EXCEPT !.raised = FALSE, !.ok = FALSE] ELSE r

Unsupported == Outcome(FALSE, FALSE, FALSE, <<>>)

SaveAuditEvents(evs, output_format, io) ==
    Caught(LET processed_events == _process_audit_events(evs)
           IN IF Lower(output_format) = "csv"
              THEN _write_csv(processed_events, "audit_events.csv", io.mkdir, io.write)
              ELSE IF Lower(output_format) = "excel"
              THEN _write_excel(processed_events, "audit_events.xlsx", io.mkdir, io.write)
              ELSE Unsupported)

\* the body of the try of save_scan_results, flat holding the processed scans
SaveProcessedScans(flat, scans, output_format, io) ==
    IF \E i \in 1..Len(flat) : flat[i].raised
    THEN Outcome(TRUE, FALSE, FALSE, <<>>)
    ELSE IF Lower(output_format) = "csv"
    THEN _write_csv([i \in 1..Len(flat) |-> flat[i].row], "scan_results.csv",
                    io.mkdir, io.write)
    ELSE IF Lower(output_format) = "excel"
    THEN _save_scans_only_excel(scans, "scan_results.xlsx", io.mkdir, io.write)
    ELSE Unsupported

SaveScanResults(scans, output_format, io) ==
    Caught(SaveProcessedScans(FlattenAll(scans, "scan_csv"), scans, output_format, io))

\* audit_success and scan_success of the CSV branch
BothCsvOutcomes(a, s) ==
    IF a.raised THEN a
    ELSE IF s.raised THEN Outcome(TRUE, FALSE, TRUE, a.files)
    ELSE Outcome(FALSE, a.ok /\ s.ok, a.io_failed \/ s.io_failed, a.files \o s.files)

\* the CSV branch of save_combined_data (lines 161-181): both lists are
\* processed, then the two files are written, the audit file first
SaveCombinedCsv(processed_audit, flat, io) ==
    IF \E i \in 1..Len(flat) : flat[i].raised
    THEN Outcome(TRUE, FALSE, FALSE, <<>>)
    ELSE BothCsvOutcomes(
             _write_csv(processed_audit, "audit_events.csv", io.mkdir, io.write),
             _write_csv([i \in 1..Len(flat) |-> flat[i].row], "scan_results.csv",
                        IF Len(processed_audit) > 0 THEN "exists" ELSE io.mkdir,
                        io.write2))

SaveCombinedData(audit_events, scan_events, output_format, io) ==
    Caught(IF Lower(output_format) = "csv"
           THEN SaveCombinedCsv(_process_audit_events(audit_events),
                                FlattenAll(scan_events, "combined_csv"), io)
           ELSE IF Lower(output_format) = "excel"
           THEN _save_combined_excel(audit_events, scan_events, "cx1_data.xlsx",
                                     io.mkdir, io.write)
           ELSE Unsupported)

\* ------------------------------------------------------------------------
\* The caller's objects during a save operation
\* ------------------------------------------------------------------------
\* A name of the code bound to a dict: new is the dict the name refers to,
\* orig the dict the caller passed, shared whether both are one object.

\* the loop variable of "for event in events", "for row in json_list"
Obj(d) == [orig |-> d, new |-> d, shared |-> TRUE]

dict_copy_alias(c) == c

\* row.copy(), event.copy(): a new dict with the same items
dict_copy(c) == [c EXCEPT !.shared = FALSE]

\* "extracted = {}" of _extract_scan_fields, "new_row = {}"
NewDict(d) == [orig |-> d, new |-> EmptyDict, shared |-> FALSE]

\* the assignments and pops made through the name leave its dict equal to d
Assign(c, d) == [orig |-> IF c.shared THEN d ELSE c.orig, new |-> d, shared |-> c.shared]

\* the loop body of _process_audit_events (lines 528-545)
ProcessAuditEventObj(event) == Assign(dict_copy(Obj(event)), ProcessAuditEvent(event))

\* the first loop of _write_csv (lines 657-662) and of _write_excel
\* (lines 699-704) on a row of json_list
WriteRowObj(row) == Assign(dict_copy(row), BlanksToNA(row.new))

\* the first loop of _add_audit_worksheet (lines 236-252)
AuditWorksheetRowObj(event) == Assign(dict_copy(Obj(event)), AuditWorksheetRow(event))

\* an audit event of the caller after save_audit_events
EventAfterSaveAudit(event, output_format) ==
    IF Lower(output_format) \in {"csv", "excel"}
    THEN WriteRowObj(ProcessAuditEventObj(event)).orig
    ELSE ProcessAuditEventObj(event).orig

\* an audit event of the caller after save_combined_data: the workbook is
\* built after makedirs succeeded
EventAfterSaveCombined(event, output_format, io) ==
    IF Lower(output_format) = "csv" THEN WriteRowObj(ProcessAuditEventObj(event)).orig
    ELSE IF Lower(output_format) = "excel" /\ FolderReady(io.mkdir)
    THEN AuditWorksheetRowObj(event).orig
    ELSE event

\* a scan of the caller after its fields were extracted into a new dict
ScanAfterSave(scan) == Assign(NewDict(scan), _extract_scan_fields(scan)).orig

\* the result of a call together with the caller's lists after it
AfterCall(r, audit_events, scan_events) ==
    [raised |-> r.raised, ok |-> r.ok, io_failed |-> r.io_failed, files |-> r.files,
     audit_events |-> audit_events, scan_events |-> scan_events]

\* ------------------------------------------------------------------------
\* The save operations called on their own
\* ------------------------------------------------------------------------
Txt_long ==
    <<"s", "a", "s", "t", "/", "a", "b", "c", "d", "e", "f", "g", "h", "i", "j", "k",
      "l", "m", "n", "o", "p", "q", "r", "s", "t", "u", "v", "w", "x", "y", "z", "a", "b">>

\* scans told apart by their id, with the fields the grouping reads; the
\* last one has a repo_url that is no text and makes the extraction raise
EngineScanPool ==
    {MakeRecord(<<"id", "engine">>, <<VStr(<<"s", "1">>), VStr(Txt_sast)>>),
     MakeRecord(<<"id", "engine", "type">>,
                <<VStr(<<"s", "2">>), VStr(Txt_kics), VStr(Txt_sast)>>),
     MakeRecord(<<"id", "scanEngine">>, <<VStr(<<"s", "3">>), VStr(Txt_sast)>>),
     MakeRecord(<<"id", "type">>, <<VStr(<<"s", "4">>), VStr(Txt_long)>>),
     MakeRecord(<<"id">>, <<VStr(<<"s", "5">>)>>),
     MakeRecord(<<"id", "engine", "metadata">>,
                <<VStr(<<"s", "6">>), VStr(Txt_kics),
                  VDict(<<"Handler">>,
                        <<VDict(<<"GitHandler">>, <<VDict(<<"repo_url">>, <<VNone>>)>>)>>)>>)}

ScanLists == UNION {[1..n -> EngineScanPool] : n \in 0..MaxScans}

AuditLists ==
    {<<>>,
     <<AuditEventOf(VDict(<<"id", "status", "username">>,
                          <<VStr(Txt_s1), VStr(Txt_Completed), VStr(Txt_alice)>>), Absent)>>,
     <<AuditEventOf(Absent, VList(<<VStr(<<"a">>)>>))>>,
     <<AuditEventOf(VDict(<<"id", "status", "username">>,
                          <<VStr(Txt_s1), VStr(<<>>), VStr(Txt_alice)>>), Absent),
       AuditEventOf(Absent, VInt(5))>>}

IoStates == [mkdir : {"exists", "PermissionError"}, write : IoOutcomes,
             write2 : {"ok", "PermissionError"}]

SaveOps == {"save_audit_events", "save_scan_results", "save_combined_data"}

InitSave ==
    /\ RunIdle /\ FilterIdle /\ FetchIdle
    /\ ColumnIdle /\ FlattenIdle /\ ScanReqIdle /\ CurlIdle
    /\ w_pc = "input"
    /\ w_op \in SaveOps
    /\ w_in \in [audit : AuditLists, scans : ScanLists, output_format : SaveFormats,
                 io : IoStates]
    /\ w_op = "save_audit_events" => w_in.scans = <<>>
    /\ w_op = "save_scan_results" => w_in.audit = <<>>
    /\ w_out = <<>>

CallSaveAuditEvents ==
    /\ w_pc = "input" /\ w_op = "save_audit_events"
    /\ w_out' = AfterCall(SaveAuditEvents(w_in.audit, w_in.output_format, w_in.io),
                          [i \in 1..Len(w_in.audit) |->
                              EventAfterSaveAudit(w_in.audit[i], w_in.output_format)],
                          w_in.scans)
    /\ w_pc' = "done"
    /\ UNCHANGED <<w_op, w_in>>
    /\ UNCHANGED <<runVars, filterVars, fetchVars, columnVars, flattenVars, scanReqVars,
                 curlVars>>

CallSaveScanResults ==
    /\ w_pc = "input" /\ w_op = "save_scan_results"
    /\ w_out' = AfterCall(SaveScanResults(w_in.scans, w_in.output_format, w_in.io),
                          w_in.audit,
                          [i \in 1..Len(w_in.scans) |-> ScanAfterSave(w_in.scans[i])])
    /\ w_pc' = "done"
    /\ UNCHANGED <<w_op, w_in>>
    /\ UNCHANGED <<runVars, filterVars, fetchVars, columnVars, flattenVars, scanReqVars,
                 curlVars>>

CallSaveCombinedData ==
    /\ w_pc = "input" /\ w_op = "save_combined_data"
    /\ w_out' = AfterCall(SaveCombinedData(w_in.audit, w_in.scans, w_in.output_format,
                                           w_in.io),
                          [i \in 1..Len(w_in.audit) |->
                              EventAfterSaveCombined(w_in.audit[i], w_in.output_format,
                                                     w_in.io)],
                          [i \in 1..Len(w_in.scans) |-> ScanAfterSave(w_in.scans[i])])
    /\ w_pc' = "done"
    /\ UNCHANGED <<w_op, w_in>>
    /\ UNCHANGED <<runVars, filterVars, fetchVars, columnVars, flattenVars, scanReqVars,
                 curlVars>>

NextSave == CallSaveAuditEvents \/ CallSaveScanResults \/ CallSaveCombinedData

SpecSave == InitSave /\ [][NextSave]_vars

\* ------------------------------------------------------------------------
\* C17
\* ------------------------------------------------------------------------
\* the sheets of scans of the workbook that was written
EngineSheets ==
    IF w_pc = "done" /\ Len(w_out.files) = 1
    THEN SelectSeq(w_out.files[1].sheets, LAMBDA sh : sh.category # Absent)
    ELSE <<>>

WroteWorkbookOfScans ==
    /\ w_pc = "done" /\ w_out.ok /\ Lower(w_in.output_format) = "excel"
    /\ w_op \in {"save_scan_results", "save_combined_data"}
    /\ Len(w_in.scans) > 0

ScansOfCategory(category) ==
    SelectSeq(w_in.scans, LAMBDA scan : EngineOf(scan) = category)

\* every distinct category has its sheet, and a sheet holds the rows of the
\* scans of its category, in their order
C17_OneSheetPerCategory ==
    WroteWorkbookOfScans =>
        /\ Len(EngineSheets) = Cardinality({EngineOf(w_in.scans[i]) : i \in 1..Len(w_in.scans)})
        /\ \A i \in 1..Len(EngineSheets) :
              LET of == ScansOfCategory(EngineSheets[i].category)
              IN /\ \A j \in 1..Len(EngineSheets) :
                       EngineSheets[j].category = EngineSheets[i].category => j = i
                 /\ Len(EngineSheets[i].rows) = Len(of)
                 /\ \A k \in 1..Len(of) :
                       Get(EngineSheets[i].rows[k], "scan_id", Absent) = Get(of[k], "id", Absent)

\* C17: in Excel output the scans are partitioned by their engine/category
\* value into one worksheet per distinct value, every scan in exactly the
\* worksheet of its value, and the name of each worksheet is derived from
\* the category value ('/' replaced, cut to 31 characters).
C17_SheetPerCategoryNamedAfterIt ==
    /\ C17_OneSheetPerCategory
    /\ WroteWorkbookOfScans =>
          \A i \in 1..Len(EngineSheets) :
              EngineSheets[i].title = safe_name(EngineSheets[i].category)

\* what the code names the sheets: 'Scans', then 'Scans1', 'Scans2', ...
C17_SheetsAreNamedScans ==
    WroteWorkbookOfScans =>
        \A i \in 1..Len(EngineSheets) :
            EngineSheets[i].title = IF i = 1 THEN Txt_Scans ELSE Txt_Scans \o Digits(i - 1)

C17_TwoCategoriesWritten ==
    /\ WroteWorkbookOfScans /\ w_op = "save_scan_results"
    /\ Len(EngineSheets) = 2
    /\ EngineSheets[1].category = VStr(Txt_sast) /\ EngineSheets[1].title = Txt_Scans
    /\ EngineSheets[2].category = VStr(Txt_long)
    /\ EngineSheets[2].title = Txt_Scans \o <<"1">>

\* ------------------------------------------------------------------------
\* C18
\* ------------------------------------------------------------------------
\* the files an operation has data for
ExpectedFiles ==
    LET fmt == Lower(w_in.output_format)
        a == Len(w_in.audit) > 0
        s == Len(w_in.scans) > 0
    IN CASE w_op = "save_audit_events" /\ fmt = "csv" /\ a -> {"audit_events.csv"}
         [] w_op = "save_audit_events" /\ fmt = "excel" /\ a -> {"audit_events.xlsx"}
         [] w_op = "save_scan_results" /\ fmt = "csv" /\ s -> {"scan_results.csv"}
         [] w_op = "save_scan_results" /\ fmt = "excel" -> {"scan_results.xlsx"}
         [] w_op = "save_combined_data" /\ fmt = "csv" ->
              (IF a THEN {"audit_events.csv"} ELSE {}) \cup (IF s THEN {"scan_results.csv"} ELSE {})
         [] w_op = "save_combined_data" /\ fmt = "excel" -> {"cx1_data.xlsx"}
         [] OTHER -> {}

WrittenFiles == {w_out.files[i].name : i \in 1..Len(w_out.files)}

\* C18: the three save operations never raise on an I/O failure: a failure of
\* creating the folder or of writing a file (permission, lock or any other)
\* makes the operation return False; it returns True only when every file it
\* had to write was written (or there was nothing to write); an unsupported
\* format returns False.
C18_SaveReturnsFalseOnFailure ==
    w_pc = "done" =>
        /\ ~w_out.raised
        /\ w_out.io_failed => ~w_out.ok
        /\ w_out.ok => WrittenFiles = ExpectedFiles
        /\ Lower(w_in.output_format) \notin {"csv", "excel"} =>
              ~w_out.ok /\ w_out.files = <<>>

C18_Witness ==
    /\ w_pc = "done" /\ w_op = "save_combined_data" /\ w_in.output_format = "csv"
    /\ w_in.io.mkdir = "PermissionError" /\ Len(w_in.audit) > 0
    /\ w_out.io_failed /\ ~w_out.ok /\ ~w_out.raised /\ w_out.files = <<>>

\* ------------------------------------------------------------------------
\* C19
\* ------------------------------------------------------------------------
\* a command handler has returned (argparse's own exit has status 2)
HandlerReturned == pc = "exit" /\ exit_code # 2

NoRequest == [audit |-> 0, link |-> 0, scans |-> 0]

\* the exit code and the writer when a handler has returned
C19_ExitCodeFollowsWriter ==
    HandlerReturned =>
        /\ exit_code \in {0, 1}
        /\ exit_code = 0 => (writer.called /\ writer.ok)
        /\ (writer.called /\ ~writer.ok) => exit_code = 1
        /\ gae.state = "raised" =>
              (exit_code = 1 /\ ~writer.called /\ gets.scans = 0)
        /\ scan_results.error => (exit_code = 1 /\ ~writer.called)
        /\ writer.called =>
              /\ mode # "scan" => gae.state = "returned"
              /\ mode # "audit" => (scan_results.called /\ ~scan_results.error)

\* C19: every command handler (audit, scan, both) returns 0 or 1 and never
\* raises: 1 when authentication fails, when the root audit fetch or the
\* scans fetch fails, or when the writer reports failure, 0 only when the
\* writer reported success; a failed authentication and a failed root fetch
\* end the command before anything is requested further or written.
C19_HandlersReturnZeroOrOne ==
    /\ []C19_ExitCodeFollowsWriter
    /\ [][(pc = "start" /\ pc' = "exit") =>
             (exit_code' = 1 /\ ~writer'.called /\ gets' = NoRequest)]_vars
    /\ [][(pc = "fetch_audit" /\ pc' = "exit") =>
             (exit_code' = 1 /\ ~writer'.called /\ gets'.link = 0 /\ gets'.scans = 0)]_vars

C19_Witness ==
    /\ pc = "exit" /\ mode = "both" /\ exit_code = 1
    /\ gae.state = "raised" /\ gae.exc = "RuntimeError"
    /\ gets.audit = 1 /\ gets.scans = 0 /\ ~writer.called

\* ------------------------------------------------------------------------
\* scan_fetcher: convert_date_to_rfc3339, urlencode, get_scan_results
\* ------------------------------------------------------------------------
\* dt.strftime("%Y-%m-%d")
strftime_day(dt) ==
    FourDigits(dt.year) \o <<"-">> \o TwoDigits(dt.month) \o <<"-">> \o TwoDigits(dt.day)

\* dt.strftime("%Y-%m-%dT%H:%M:%S.000Z")
strftime_rfc3339(dt) ==
    strftime_day(dt) \o <<"T">> \o TwoDigits(dt.hour) \o <<":">> \o TwoDigits(dt.minute)
                     \o <<":">> \o TwoDigits(dt.second) \o <<".", "0", "0", "0", "Z">>

convert_date_to_rfc3339_notPinned(date_str, is_end_date) ==
    IF ~Truthy(date_str) THEN [raised |-> FALSE, value |-> PyNone]
    ELSE LET p == parse_flexible_date(date_str.s)
         IN IF ~p.ok THEN [raised |-> TRUE, value |-> PyNone]
            ELSE [raised |-> FALSE, value |-> PyStr(strftime_rfc3339(p.dt))]

\* None for no date, ValueError for a text parse_flexible_date refuses, else
\* the day at 00:00:00.000Z, or at 23:59:59.999Z for an end date
convert_date_to_rfc3339(date_str, is_end_date) ==
    IF ~Truthy(date_str) THEN [raised |-> FALSE, value |-> PyNone]
    ELSE LET p == parse_flexible_date(date_str.s)
         IN IF ~p.ok THEN [raised |-> TRUE, value |-> PyNone]
            ELSE [raised |-> FALSE,
                  value |-> PyStr(IF is_end_date
                                  THEN strftime_day(p.dt) \o <<"T", "2", "3", ":", "5", "9", ":", "5", "9", ".", "9", "9", "9", "Z">>
                                  ELSE strftime_rfc3339(p.dt))]

Txt_limit == <<"l", "i", "m", "i", "t">>
Txt_offset == <<"o", "f", "f", "s", "e", "t">>
Txt_from_date == <<"f", "r", "o", "m", "-", "d", "a", "t", "e">>
Txt_to_date == <<"t", "o", "-", "d", "a", "t", "e">>
BASE_API_URL == <<"h", "t", "t", "p", "s", ":", "/", "/", "h", "/", "a", "p", "i">>

Param(k, v) == [k |-> k, v |-> v]

\* urllib.parse.quote_plus of a text of letters, digits, '-', '.', ':', '/'
\* and blanks
RECURSIVE quote_plus(_)
quote_plus(text) ==
    IF Len(text) = 0 THEN <<>>
    ELSE (CASE Head(text) = ":" -> <<"%", "3", "A">>
            [] Head(text) = "/" -> <<"%", "2", "F">>
            [] Head(text) = " " -> <<"+">>
            [] OTHER -> <<Head(text)>>) \o quote_plus(Tail(text))

\* urlencode(params): key=value pairs in the order of the dict, joined by &
urlencode(params) ==
    Join(<<"&">>, [i \in 1..Len(params) |->
                      quote_plus(params[i].k) \o <<"=">> \o quote_plus(params[i].v)])

NoScanRequest == [raised |-> FALSE, sent |-> FALSE, params |-> <<>>, url |-> <<>>,
                  error |-> FALSE, scans |-> <<>>, total_count |-> 0]

\* get_scan_results: the parameters, the URL, the request and the result; a
\* date that cannot be converted raises before the request
get_scan_results(from, to, limit, offset, resp) ==
    LET rfc3339_from == convert_date_to_rfc3339(from, FALSE)
        rfc3339_to == convert_date_to_rfc3339(to, TRUE)
        params == <<Param(Txt_limit, Digits(limit)), Param(Txt_offset, Digits(offset))>>
                  \o (IF Truthy(from) THEN <<Param(Txt_from_date, rfc3339_from.value.s)>>
                      ELSE <<>>)
                  \o (IF Truthy(to) THEN <<Param(Txt_to_date, rfc3339_to.value.s)>> ELSE <<>>)
        url == BASE_API_URL \o <<"/", "s", "c", "a", "n", "s">> \o <<"?">> \o urlencode(params)
        r == get_response(Url("scans", 0), resp)
    IN IF rfc3339_from.raised \/ rfc3339_to.raised
       THEN [NoScanRequest EXCEPT !.raised = TRUE]
       ELSE [raised |-> FALSE, sent |-> TRUE, params |-> params, url |-> url,
             error |-> r.raised,
             scans |-> IF r.raised THEN <<>> ELSE r.body.scans,
             total_count |-> IF r.raised THEN 0 ELSE Len(r.body.scans)]

\* ------------------------------------------------------------------------
\* get_scan_results called on its own
\* ------------------------------------------------------------------------
Limits == {1, 1000}

Offsets == {0, 100}

InitScanRequest ==
    /\ RunIdle /\ FilterIdle /\ FetchIdle
    /\ ColumnIdle /\ FlattenIdle /\ SaveIdle /\ CurlIdle
    /\ q_pc = "input"
    /\ q_in \in [from : BoundSet, to : BoundSet, limit : Limits, offset : Offsets]
    /\ q_out = <<>>

CallGetScanResults ==
    /\ q_pc = "input"
    /\ \E resp \in Responses(ScanBodies) :
         q_out' = get_scan_results(q_in.from, q_in.to, q_in.limit, q_in.offset, resp)
    /\ q_pc' = "done"
    /\ UNCHANGED q_in
    /\ UNCHANGED <<runVars, filterVars, fetchVars, columnVars, flattenVars, saveVars,
                 curlVars>>

NextScanRequest == CallGetScanResults

SpecScanRequest == InitScanRequest /\ [][NextScanRequest]_vars

\* ------------------------------------------------------------------------
\* C20
\* ------------------------------------------------------------------------
\* the day a bound of the pool denotes, as the text of an RFC3339 date
BoundDayText(a) ==
    CASE a = PyStr(D_0315) -> <<"2", "0", "2", "4", "-", "0", "3", "-", "1", "5">>
      [] a = PyStr(D_0315s) -> <<"2", "0", "2", "4", "-", "0", "3", "-", "1", "5">>
      [] a = PyStr(D_0316) -> <<"2", "0", "2", "4", "-", "0", "3", "-", "1", "6">>
      [] a = PyStr(D_1231) -> <<"2", "0", "2", "3", "-", "1", "2", "-", "3", "1">>
      [] a = PyStr(D_1969) -> <<"1", "9", "6", "9", "-", "0", "1", "-", "0", "1">>
      [] OTHER -> <<>>

DecimalText(k) ==
    CASE k = 0 -> <<"0">>
      [] k = 1 -> <<"1">>
      [] k = 100 -> <<"1", "0", "0">>
      [] k = 1000 -> <<"1", "0", "0", "0">>

\* the parameters a URL carries: the text after '?' cut at '&' and '=', with
\* the percent escapes undone
RECURSIVE SplitAt(_, _)
SplitAt(text, c) ==
    IF Positions(text, c) = {} THEN <<text>>
    ELSE LET p == Min(Positions(text, c))
         IN <<SubSeq(text, 1, p - 1)>> \o SplitAt(SubSeq(text, p + 1, Len(text)), c)

RECURSIVE Unquoted(_)
Unquoted(text) ==
    IF Len(text) = 0 THEN <<>>
    ELSE IF Len(text) >= 3 /\ SubSeq(text, 1, 3) = <<"%", "3", "A">>
    THEN <<":">> \o Unquoted(SubSeq(text, 4, Len(text)))
    ELSE IF Len(text) >= 3 /\ SubSeq(text, 1, 3) = <<"%", "2", "F">>
    THEN <<"/">> \o Unquoted(SubSeq(text, 4, Len(text)))
    ELSE <<IF Head(text) = "+" THEN " " ELSE Head(text)>> \o Unquoted(Tail(text))

ParamsInUrl(url) ==
    LET pairs == SplitAt(SplitAt(url, "?")[2], "&")
    IN [i \in 1..Len(pairs) |->
           Param(Unquoted(SplitAt(pairs[i], "=")[1]), Unquoted(SplitAt(pairs[i], "=")[2]))]

\* <<day, time of day, milliseconds>> of YYYY-MM-DDTHH:MM:SS.mmmZ
InstantOf(text) ==
    <<NumVal(SubSeq(text, 1, 4) \o SubSeq(text, 6, 7) \o SubSeq(text, 9, 10)),
      NumVal(SubSeq(text, 12, 13) \o SubSeq(text, 15, 16) \o SubSeq(text, 18, 19)),
      NumVal(SubSeq(text, 21, 23))>>

InstantLess(a, b) ==
    \/ a[1] < b[1]
    \/ a[1] = b[1] /\ a[2] < b[2]
    \/ a[1] = b[1] /\ a[2] = b[2] /\ a[3] < b[3]

Readable(a) == ~Given(a) \/ BoundDay(a) > 0

ExpectedParams ==
    <<Param(Txt_limit, DecimalText(q_in.limit)), Param(Txt_offset, DecimalText(q_in.offset))>>
    \o (IF Given(q_in.from)
        THEN <<Param(Txt_from_date, BoundDayText(q_in.from) \o <<"T", "0", "0", ":", "0", "0", ":", "0", "0", ".", "0", "0", "0", "Z">>)>>
        ELSE <<>>)
    \o (IF Given(q_in.to)
        THEN <<Param(Txt_to_date, BoundDayText(q_in.to) \o <<"T", "2", "3", ":", "5", "9", ":", "5", "9", ".", "9", "9", "9", "Z">>)>>
        ELSE <<>>)

\* C20: the request of get_scan_results always carries 'limit' and 'offset',
\* carries 'from-date' only when a from date is given and 'to-date' only when
\* a to date is given; the from date is sent as 00:00:00.000Z of its day and
\* the to date as 23:59:59.999Z of its day, so that from == to asks for that
\* whole day and from-date <= to-date whenever from <= to.  (A date that
\* cannot be read raises before any request.)
C20_ScanRequestParameters ==
    q_pc = "done" =>
        IF ~(Readable(q_in.from) /\ Readable(q_in.to))
        THEN q_out.raised /\ ~q_out.sent
        ELSE /\ ~q_out.raised /\ q_out.sent
             /\ q_out.params = ExpectedParams
             /\ ParamsInUrl(q_out.url) = ExpectedParams
             /\ (Given(q_in.from) /\ Given(q_in.to) /\ BoundDay(q_in.from) <= BoundDay(q_in.to)) =>
                   /\ InstantLess(InstantOf(q_out.params[3].v), InstantOf(q_out.params[4].v))
                   /\ BoundDay(q_in.from) = BoundDay(q_in.to) =>
                         /\ InstantOf(q_out.params[3].v) = <<BoundDay(q_in.from), 0, 0>>
                         /\ InstantOf(q_out.params[4].v) = <<BoundDay(q_in.to), 235959, 999>>

C20_Witness ==
    /\ q_pc = "done" /\ q_out.sent /\ ~q_out.error
    /\ q_in.from = PyStr(D_0315s) /\ q_in.to = PyStr(D_0315)
    /\ Len(q_out.params) = 4
    /\ q_out.params[3] = Param(Txt_from_date, <<"2", "0", "2", "4", "-", "0", "3", "-", "1", "5", "T", "0", "0", ":", "0", "0", ":", "0", "0", ".", "0", "0", "0", "Z">>)
    /\ q_out.params[4] = Param(Txt_to_date, <<"2", "0", "2", "4", "-", "0", "3", "-", "1", "5", "T", "2", "3", ":", "5", "9", ":", "5", "9", ".", "9", "9", "9", "Z">>)


\* ------------------------------------------------------------------------
\* The order of the audit events the writer receives
\* ------------------------------------------------------------------------
\* the instant an eventDate of the pools denotes, in UTC: the day as
\* year*10000 + month*100 + day and the minute of that day
ExpectedInstant(id) ==
    CASE id = 1 -> [day |-> 20240315, minute |-> 600]
      [] id = 2 -> [day |-> 20240316, minute |-> 0]
      [] id = 3 -> [day |-> 20240314, minute |-> 1319]
      [] id = 6 -> [day |-> 20240229, minute |-> 0]
      [] id = 7 -> [day |-> 20240101, minute |-> 270]
      [] id = 8 -> [day |-> 20250101, minute |-> 5]
      [] OTHER -> [day |-> 0, minute |-> 0]

NotLater(a, b) == a.day < b.day \/ (a.day = b.day /\ a.minute <= b.minute)

WrittenAuditEvents ==
    IF writer.called /\ writer.op \in {"save_audit_events", "save_combined_data"}
    THEN writer.audit ELSE <<>>

\* C21: whatever order the link tasks complete in, for any two consecutive
\* audit events handed to the writer the earlier one's eventDate is not
\* later than the next one's, also across month and year boundaries.
C21_WrittenEventsSortedByTimestamp ==
    \A k \in 1..(Len(WrittenAuditEvents) - 1) :
        ( /\ ExpectedInstant(WrittenAuditEvents[k].id).day > 0
          /\ ExpectedInstant(WrittenAuditEvents[k + 1].id).day > 0 )
        => NotLater(ExpectedInstant(WrittenAuditEvents[k].id),
                    ExpectedInstant(WrittenAuditEvents[k + 1].id))


\* ------------------------------------------------------------------------
\* The writers of the merged collection during the fan-out
\* ------------------------------------------------------------------------
\* entries of the curl list that name the link of task i
CurlEntriesOf(i) ==
    Cardinality({k \in 1..Len(curl_equivalents_for_links) :
                   curl_equivalents_for_links[k] = Url("link", filtered_links[i].id)})

\* the number of elements extend() has added for the tasks 1..i that were
\* collected and had returned
RECURSIVE MergedFromTasks(_)
MergedFromTasks(i) ==
    IF i = 0 THEN 0
    ELSE MergedFromTasks(i - 1)
         + (IF tasks[i].collected /\ ~tasks[i].raised
            THEN Len(Extend(<<>>, tasks[i].body)) ELSE 0)

Succeeded(i) == tasks[i].state = "done" /\ ~tasks[i].raised

\* control has left get_audit_events after the tasks were submitted
LeftFanOut == \/ gae.state = "returned"
              \/ gae.state = "raised" /\ gae.exc = "KeyError"

\* C22 (the writers): a step of a worker task leaves the merged collection
\* and the curl list as they are; they change only in the controlling
\* thread, by the contribution of one completed task per loop iteration.
C22_OnlyControllerWritesMerge ==
    [][ (pc \in {"collect", "join_raise"}) =>
          \/ /\ filtered_events' = filtered_events
             /\ curl_equivalents_for_links' = curl_equivalents_for_links
          \/ \E i \in 1..Len(tasks) :
               /\ pc = "collect"
               /\ Succeeded(i) /\ ~tasks[i].collected /\ tasks'[i].collected
               /\ \A j \in 1..Len(tasks) : j # i => tasks'[j] = tasks[j]
               /\ filtered_events' = Extend(filtered_events, tasks[i].body)
               /\ curl_equivalents_for_links' =
                      Append(curl_equivalents_for_links, Url("link", filtered_links[i].id))
      ]_vars

\* C22 (the merge while the loop runs): the task that was collected and
\* returned has one curl entry, any other task none, and the merged
\* collection has grown by exactly the contributions of the collected tasks.
C22_CollectedOnce ==
    (pc \in {"collect", "join_raise"} \/ LeftFanOut) =>
        /\ \A i \in 1..Len(tasks) :
             CurlEntriesOf(i) = IF Succeeded(i) /\ tasks[i].collected THEN 1 ELSE 0
        /\ Len(curl_equivalents_for_links) =
              Cardinality({i \in 1..Len(tasks) : Succeeded(i) /\ tasks[i].collected})
        /\ Len(filtered_events) = Len(RootSurvivors) + MergedFromTasks(Len(tasks))

\* C22: the merged collection and the curl list are written by the
\* controlling thread alone, one completed task at a time, and under every
\* interleaving of task completions the contribution of every successful
\* task is in the merge exactly once when control leaves the fan-out.
C22_NoContributionLostOrDuplicated ==
    LeftFanOut => \A i \in 1..Len(tasks) : Succeeded(i) => CurlEntriesOf(i) = 1

\* ------------------------------------------------------------------------
\* The run under fair scheduling
\* ------------------------------------------------------------------------
\* the steps of the controlling thread inside get_audit_events
Controller ==
    \/ FetchAuditRoot
    \/ SubmitLinks
    \/ \E i \in 1..MaxLinks : Collect(i)
    \/ GaeReturn
    \/ JoinRaise

\* the controlling thread keeps running, a free worker of the pool takes
\* the next queued task, and every request is answered or fails
Fairness ==
    /\ WF_vars(Controller)
    /\ \A i \in 1..MaxLinks : WF_vars(TaskStart(i)) /\ WF_vars(TaskFinish(i))

\* get_audit_events on its own, as handle_audit_command calls it without
\* date bounds and with a pool of two workers
InitJoin ==
    /\ mode = "audit"
    /\ args_from = PyNone /\ args_to = PyNone
    /\ thread_count = 2
    /\ args_thread_count = PyStr(Digits(thread_count))
    /\ pc = "fetch_audit" /\ exit_code = -1
    /\ from_date = args_from /\ to_date = args_to
    /\ gets = [audit |-> 0, link |-> 0, scans |-> 0]
    /\ events = <<>> /\ links = <<>>
    /\ filtered_events = <<>> /\ filtered_links = <<>>
    /\ tasks = <<>>
    /\ curl_equivalents_for_links = <<>>
    /\ gae = [state |-> "idle", exc |-> ""]
    /\ result_events = <<>> /\ result_links = <<>>
    /\ sorted_events = <<>>
    /\ scan_results = NoScanResults
    /\ writer = NoWriter
    /\ FilterIdle /\ FetchIdle /\ OutputIdle

NextJoin ==
    \/ FetchAuditRoot
    \/ SubmitLinks
    \/ \E i \in 1..MaxLinks : TaskStart(i)
    \/ \E i \in 1..MaxLinks : TaskFinish(i)
    \/ \E i \in 1..MaxLinks : Collect(i)
    \/ GaeReturn
    \/ JoinRaise

SpecJoin == InitJoin /\ [][NextJoin]_vars /\ Fairness

LeftGetAuditEvents == gae.state \in {"returned", "raised"}

\* C23: provided every HTTP call returns or fails, get_audit_events
\* returns or raises; whenever control has left it every dispatched task
\* has completed, none is pending or running, and none changes afterwards.
C23_JoinBarrier ==
    /\ (pc = "fetch_audit") ~> LeftGetAuditEvents
    /\ [](LeftGetAuditEvents => \A i \in 1..Len(tasks) : tasks[i].state = "done")
    /\ [][LeftGetAuditEvents => (tasks' = tasks /\ gets'.link = gets.link)]_vars

C23_Witness ==
    /\ gae.state = "raised" /\ gae.exc = "KeyError"
    /\ Len(tasks) = 2
    /\ \E i \in 1..2 : tasks[i].requested /\ ~tasks[i].raised /\ ~tasks[i].collected
    /\ \A i \in 1..2 : tasks[i].state = "done"


\* ------------------------------------------------------------------------
\* The result of get_audit_events
\* ------------------------------------------------------------------------
\* curl_audit_request_equivalent: the request of the root call
curl_audit_request_equivalent == Url("audit", 0)

\* C24 (returned tasks): the curl list holds one entry for every link whose
\* task returned, naming the link, none for a link whose task raised, and
\* the 'links' entry holds the followed links in their order.
C24_OneCurlPerReturnedTask ==
    gae.state = "returned" =>
        /\ \A i \in 1..Len(tasks) : CurlEntriesOf(i) = IF tasks[i].raised THEN 0 ELSE 1
        /\ ItemIds(result_links) = ItemIds(filtered_links)
        /\ Len(tasks) = Len(result_links)

\* C24: the result holds the curl string of the root call and exactly one
\* curl string for every link a task was dispatched for, whether or not the
\* fetch succeeded, each naming the link's URL; 'links' holds exactly the
\* followed links.
C24_OneCurlPerFollowedLink ==
    gae.state = "returned" =>
        /\ curl_audit_request_equivalent = Url("audit", 0)
        /\ Len(curl_equivalents_for_links) = Len(tasks)
        /\ \A i \in 1..Len(tasks) : CurlEntriesOf(i) = 1
        /\ ItemIds(result_links) = ItemIds(filtered_links)

\* ------------------------------------------------------------------------
\* The date range of the returned events
\* ------------------------------------------------------------------------
\* C26 (root records): with a bound given, the records of the root list
\* that are returned lie within the bounds.
C26_RootEventsWithinBounds ==
    (gae.state = "returned" /\ (Given(from_date) \/ Given(to_date))) =>
        \A k \in 1..Len(RootSurvivors) :
            /\ result_events[k].id = RootSurvivors[k].id
            /\ InExpectedRange(result_events[k], from_date, to_date)

\* C26: with a from and/or to bound, every record of the returned events
\* has an eventDate whose date lies within the bounds, the records that
\* were obtained by following links included.
C26_ReturnedEventsWithinBounds ==
    (gae.state = "returned" /\ (Given(from_date) \/ Given(to_date))) =>
        \A k \in 1..Len(result_events) :
            result_events[k].kind = "dict" =>
                InExpectedRange(result_events[k], from_date, to_date)

\* ------------------------------------------------------------------------
\* A link descriptor without url
\* ------------------------------------------------------------------------
\* C30: a surviving link without a url is a per-link failure like any
\* other: once its task is collected the loop goes on, the other links are
\* merged and get_audit_events returns instead of raising.
C30_LinkWithoutUrlIsDropped ==
    \A i \in 1..Len(tasks) :
        (~filtered_links[i].hasUrl /\ tasks[i].collected) =>
            /\ pc # "join_raise"
            /\ gae.state # "raised"


\* ------------------------------------------------------------------------
\* C25: the save operations leave the lists and the records they were given
\* as they were: after save_audit_events, save_scan_results and
\* save_combined_data every audit event and every scan of the caller equals
\* what was passed, and an audit event that had "data" still has it, whether
\* the operation returned True or False
\* ------------------------------------------------------------------------
C25_SaveLeavesInputUnchanged ==
    w_pc = "done" =>
        /\ w_out.audit_events = w_in.audit
        /\ w_out.scan_events = w_in.scans
        /\ \A i \in 1..Len(w_in.audit) :
              Has(w_in.audit[i], "data") => Has(w_out.audit_events[i], "data")

\* save_audit_events wrote a row without "data" for an event whose "data"
\* is a mapping
C25_Witness ==
    /\ w_pc = "done" /\ w_op = "save_audit_events" /\ w_out.ok
    /\ Len(w_in.audit) > 0 /\ Len(w_out.files) = 1
    /\ IsDict(Get(w_in.audit[1], "data", VNone))
    /\ ~Has(w_out.files[1].sheets[1].rows[1], "data")
    /\ Has(w_out.audit_events[1], "data")


\* ------------------------------------------------------------------------
\* The curl strings of get_audit_events for two bearer tokens
\* ------------------------------------------------------------------------
Tokens == {"tokA", "tokB", "tokC"}

\* the headers of initialize_api (run.py lines 127-130)
HeadersOf(oauth_token) ==
    [Authorization |-> <<"Bearer ", oauth_token>>, ContentType |-> "application/json"]

curl_cmd_bearer(link_url, headers) ==
    <<"curl -X GET '", link_url, "' -H 'Authorization: Bearer ", headers.Authorization[2], "'">>

\* f"curl -X GET '{link_url}' -H 'Authorization: Bearer <token>'" (lines 130, 180)
curl_cmd(link_url, headers) ==
    <<"curl -X GET '", link_url, "' -H 'Authorization: Bearer ", "<token>", "'">>

\* a link of the root response and what happens to its request
LinkKinds == {"ok", "fail", "nourl"}

\* fetch_events_from_link (lines 127-131): link["url"], the request, the string
FetchCurl(id, kind, headers) ==
    IF kind = "nourl" THEN [raised |-> "KeyError", curl_cmd |-> <<>>]
    ELSE IF kind = "fail" THEN [raised |-> "RequestException", curl_cmd |-> <<>>]
    ELSE [raised |-> "", curl_cmd |-> curl_cmd(Url("link", id), headers)]

\* the loop over as_completed (lines 171-177): the string of a task that
\* returned is appended, a task that raised is logged with its link's url
RECURSIVE CollectCurls(_, _, _, _, _)
CollectCurls(link_kinds, order, headers, k, acc) ==
    IF k > Len(order) THEN [raised |-> FALSE, curls |-> acc]
    ELSE LET r == FetchCurl(order[k], link_kinds[order[k]], headers)
         IN IF r.raised = "" THEN CollectCurls(link_kinds, order, headers, k + 1,
                                               Append(acc, r.curl_cmd))
            ELSE IF r.raised = "KeyError" THEN [raised |-> TRUE, curls |-> acc]
            ELSE CollectCurls(link_kinds, order, headers, k + 1, acc)

GaeCurlsAfterLoop(loop, headers) ==
    IF loop.raised THEN [raised |-> TRUE]
    ELSE [raised |-> FALSE,
          curl_audit_request_equivalent |-> curl_cmd(Url("audit", 0), headers),
          curl_equivalents_for_links |-> loop.curls]

\* the curl strings of the result of get_audit_events (lines 160-189)
GaeCurls(root, link_kinds, order, headers) ==
    IF root # "ok" THEN [raised |-> TRUE]
    ELSE GaeCurlsAfterLoop(CollectCurls(link_kinds, order, headers, 1, <<>>), headers)

\* the orders in which as_completed can yield n futures
CompletionOrders(n) == {p \in [1..n -> 1..n] : \A i, j \in 1..n : p[i] = p[j] => i = j}

CurlInputs ==
    UNION {[root : {"ok", "fail"}, link_kinds : [1..n -> LinkKinds],
            order : CompletionOrders(n),
            tokens : {t \in Tokens \X Tokens : t[1] # t[2]}] : n \in 0..MaxLinks}

InitCurl ==
    /\ RunIdle /\ FilterIdle /\ FetchIdle
    /\ ColumnIdle /\ FlattenIdle /\ SaveIdle /\ ScanReqIdle
    /\ k_pc = "input"
    /\ k_in \in CurlInputs
    /\ k_out = <<>>

\* get_audit_events with the headers of the first token
FirstRun ==
    /\ k_pc = "input"
    /\ k_out' = <<GaeCurls(k_in.root, k_in.link_kinds, k_in.order, HeadersOf(k_in.tokens[1]))>>
    /\ k_pc' = "once"
    /\ UNCHANGED k_in
    /\ UNCHANGED <<runVars, filterVars, fetchVars, columnVars, flattenVars, saveVars,
                 scanReqVars>>

\* the same requests, answers and completion order with the second token
SecondRun ==
    /\ k_pc = "once"
    /\ k_out' = Append(k_out, GaeCurls(k_in.root, k_in.link_kinds, k_in.order,
                                       HeadersOf(k_in.tokens[2])))
    /\ k_pc' = "done"
    /\ UNCHANGED k_in
    /\ UNCHANGED <<runVars, filterVars, fetchVars, columnVars, flattenVars, saveVars,
                 scanReqVars>>

NextCurl == FirstRun \/ SecondRun

SpecCurl == InitCurl /\ [][NextCurl]_vars

\* the strings of a result
CurlStringsOf(r) ==
    IF r.raised THEN {}
    ELSE {r.curl_audit_request_equivalent}
         \cup {r.curl_equivalents_for_links[i] : i \in 1..Len(r.curl_equivalents_for_links)}

\* ------------------------------------------------------------------------
\* C27: the curl strings returned by get_audit_events do not depend on the
\* bearer token: two runs with the same answers and completion order that
\* differ only in the token return the same strings, the credential is
\* rendered as the placeholder <token> and appears in none of them
\* ------------------------------------------------------------------------
C27_CurlStringsIndependentOfToken ==
    k_pc = "done" =>
        /\ k_out[1] = k_out[2]
        /\ \A r \in 1..2 : \A c \in CurlStringsOf(k_out[r]) :
              /\ c[4] = "<token>"
              /\ \A p \in 3..Len(c) : c[p] \notin Tokens

\* both runs returned the root string and the string of at least one link
C27_Witness ==
    /\ k_pc = "done" /\ k_in.tokens[1] # k_in.tokens[2]
    /\ ~k_out[1].raised /\ ~k_out[2].raised
    /\ Len(k_out[1].curl_equivalents_for_links) >= 1
    /\ Len(k_out[2].curl_equivalents_for_links) >= 1


\* ------------------------------------------------------------------------
\* The table of _write_csv and of _write_excel
\* ------------------------------------------------------------------------
\* set().union(*(row.keys() for row in processed_rows)), in the order in
\* which the keys first appear
RECURSIVE AllColumns(_)
AllColumns(rows) ==
    IF Len(rows) = 0 THEN <<>>
    ELSE AllColumns(SubSeq(rows, 1, Len(rows) - 1))
         \o SelectSeq(rows[Len(rows)].keys,
                      LAMBDA k : \A i \in 1..(Len(rows) - 1) : ~Has(rows[i], k))

\* csv.DictWriter(output_file, fieldnames=fieldnames).writerows (lines 675-677):
\* a key the row lacks gives restval, the empty text; the value is written
\* as its str()
csv_cell(row, header) == PyStrOf(Get(row, header, VStr(<<>>)))

\* worksheet.cell(..., value=data_row.get(header, "NA")) (line 728)
excel_cell(row, header) == Get(row, header, NA)

SameCells(fieldnames, rows) ==
    \A i \in 1..Len(rows) : \A j \in 1..Len(fieldnames) :
        /\ csv_cell(rows[i], fieldnames[j]) = PyStrOf(excel_cell(rows[i], fieldnames[j]))
        /\ ~Has(rows[i], fieldnames[j]) => csv_cell(rows[i], fieldnames[j]) = NA.s

SameCellsWherePresent(fieldnames, rows) ==
    \A i \in 1..Len(rows) : \A j \in 1..Len(fieldnames) :
        /\ Has(rows[i], fieldnames[j]) =>
              /\ csv_cell(rows[i], fieldnames[j]) = PyStrOf(excel_cell(rows[i], fieldnames[j]))
              /\ IsBlank(Get(ProcessAuditEvent(w_in.audit[i]), fieldnames[j], VStr(<<"x">>)))
                    => csv_cell(rows[i], fieldnames[j]) = NA.s
        /\ excel_cell(rows[i], fieldnames[j]) # VStr(<<>>)

\* the rows save_audit_events handed to the file
RowsOfAuditFile ==
    IF w_pc = "done" /\ w_op = "save_audit_events" /\ w_out.ok /\ Len(w_out.files) = 1
    THEN w_out.files[1].sheets[1].rows
    ELSE <<>>

\* ------------------------------------------------------------------------
\* C28: for the same rows the CSV writer and the Excel writer give the same
\* table: the same header and in every cell the same value, 'NA' for a blank
\* value and 'NA' for a column the row does not have
\* ------------------------------------------------------------------------
C28_CsvAndExcelSameTable ==
    SameCells(_order_columns(AllColumns(RowsOfAuditFile)), RowsOfAuditFile)

\* what holds: the cells of the columns a row has agree, blank values are
\* 'NA' in both, and the Excel writer leaves no cell empty
C28_SameTableWherePresent ==
    SameCellsWherePresent(_order_columns(AllColumns(RowsOfAuditFile)), RowsOfAuditFile)


\* ------------------------------------------------------------------------
\* C29: a failed request for the scans does not leave get_scan_results as an
\* exception: the result has 'error', no scans and total_count 0 (a result
\* without 'error' has total_count = the number of its scans); the scan and
\* the both handler then exit with 1 and the writer is not called, also when
\* the audit events had been fetched
\* ------------------------------------------------------------------------
C29_ScanFetchFailureWritesNothing ==
    /\ gets.scans > 0 => scan_results.called
    /\ scan_results.called =>
          IF scan_results.error
          THEN /\ scan_results.scans = <<>> /\ scan_results.total_count = 0
               /\ pc = "exit" /\ exit_code = 1
               /\ ~writer.called
          ELSE scan_results.total_count = Len(scan_results.scans)

\* both mode: the audit events were fetched, the request for the scans failed
C29_Witness ==
    /\ mode = "both" /\ gae.state = "returned" /\ Len(result_events) > 0
    /\ gets.scans > 0 /\ scan_results.called /\ scan_results.error
    /\ pc = "exit" /\ exit_code = 1 /\ ~writer.called

====
